---- MODULE Spec2Model ----
(***************************************************************************)
(* Scan cache / resumability protocol of the A-share scanner:              *)
(*   scan_cache.py          ScanCache (one JSON document per scan key)      *)
(*   appSimple.py           scan_all_stocks, the serial signal-analysis scan*)
(*   concurrent_scanner.py  the thread-pool signal-analysis scan            *)
(*   appFull.py             scan_trend_start_signals, the trend-start scan  *)
(* The disk is a map from cache-file paths to JSON documents.  Every cache  *)
(* method is an operator computed as the Python computes it; every handler  *)
(* (one Streamlit script run, one worker step, one API call) is an action.  *)
(***************************************************************************)
EXTENDS Integers, Sequences, FiniteSets, TLC

VARIABLES
    files,   \* scan_cache/ directory: cache-file path -> JSON document
    clock,   \* the calendar day datetime.now() falls on (index into the dates)
    call,    \* the ScanCache method call made last: arguments, locals, return value
    ncalls,  \* number of ScanCache API calls made by the client so far
    ss,      \* appSimple: st.session_state of the serial scan plus the last run's branch
    tr,      \* appFull: st.session_state of the trend-start scan, one session per scope
    cc,      \* concurrent_scanner: the state of one analyze_stocks_concurrent run
    oracle,  \* what StockAnalyzer does for each symbol (the data source's behaviour)
    mk,      \* appFull step 1: the market-environment file and the run that uses it
    fn       \* a computation of the analysers: its inputs and what it returned; the
             \* data source manager and its last call

vars == <<files, clock, call, ncalls, ss, tr, cc, oracle, mk, fn>>

-----------------------------------------------------------------------------
(* Bounds *)

MaxDay == 2        \* calendar days the clock can reach
MaxCalls == 2      \* ScanCache API calls per behaviour of SpecCache
MaxChanges == 1    \* times the user changes the period widget during a serial scan
MaxLost == 1       \* times the browser session is lost during a serial scan
MaxStocks == 2     \* the "max stocks" widget when it limits the scan (0 = no limit)
BatchSize == 2     \* batch_size of analyze_stocks_concurrent
MaxWorkers == 2    \* max_workers of analyze_stocks_concurrent
MaxScore == 18     \* largest buy_score and sell_score handed to the classifier
MaxSectors == 3    \* most sectors in the board list
MaxAnalyses == 3   \* runs of analyze_market_environment per behaviour of SpecMarket

-----------------------------------------------------------------------------
(* Values *)

None == "None"

\* generate_signals needs len(df) >= 50
MinBars == 50                                  \* Python None / a falsy argument

NoResult == [symbol |-> None, signal |-> None]  \* Python None where a result dict is expected

Symbols == {"600001.SS", "000002.SZ"}

ScanTypes == {"signal_analysis", "trend_start_signal"}

Scopes == {None, "strong_sectors", "all_stocks"}

Periods == {None, "1mo", "3mo"}

\* datetime.strftime('%Y%m%d') of the day the clock is on
DateStr(day) == <<"20250106", "20250107", "20250108", "20250109">>[day]

Dates == {DateStr(d) : d \in 1..MaxDay}

\* a result dict as the scans build it: the symbol and the signal it carries
Result(symbol, signal) == [symbol |-> symbol, signal |-> signal]

Range(seq) == {seq[i] : i \in 1..Len(seq)}

-----------------------------------------------------------------------------
(* Python dict with insertion order, as json.load / json.dump keep it *)

DictKeys(d) == {d[i].key : i \in 1..Len(d)}

\* dict.get(k): the value, or None when the key is absent
DictGet(d, k) ==
    IF k \in DictKeys(d)
    THEN (CHOOSE e \in Range(d) : e.key = k).val
    ELSE NoResult

\* d[k] = v: replaces in place, appends a new key at the end
DictSet(d, k, v) ==
    IF k \in DictKeys(d)
    THEN [i \in 1..Len(d) |-> IF d[i].key = k THEN [key |-> k, val |-> v] ELSE d[i]]
    ELSE Append(d, [key |-> k, val |-> v])

\* list(d.values())
DictValues(d) == [i \in 1..Len(d) |-> d[i].val]

-----------------------------------------------------------------------------
(* scan_cache.py: ScanCache *)

\* date = datetime.now().strftime('%Y%m%d') when the argument is None
ResolveDate(today, date) == IF date = None THEN today ELSE date

\* CacheFilePath with signal_analysis named like trend_start_signal: no period part
CacheFilePathNoPeriod(today, scan_type, date, scan_scope, period) ==
    LET d == ResolveDate(today, date) IN
    IF scan_scope # None THEN <<scan_type, scan_scope, d>> ELSE <<scan_type, d>>

\* The file name, as the sequence of the parts the f-string joins with "_".
CacheFilePath(today, scan_type, date, scan_scope, period) ==
    LET d == ResolveDate(today, date) IN
    IF scan_type = "signal_analysis"
    THEN IF scan_scope # None /\ period # None THEN <<scan_type, scan_scope, period, d>>
         ELSE IF scan_scope # None THEN <<scan_type, scan_scope, d>>
         ELSE IF period # None THEN <<scan_type, period, d>>
         ELSE <<scan_type, d>>
    ELSE IF scan_type = "trend_start_signal" /\ scan_scope # None
         THEN <<scan_type, scan_scope, d>>
         ELSE <<scan_type, d>>

\* os.path.exists(cache_file)
Exists(fs, cache_file) == cache_file \in DOMAIN fs

\* os.remove(cache_file)
Remove(fs, cache_file) == [p \in (DOMAIN fs) \ {cache_file} |-> fs[p]]

\* open(cache_file, 'w'); json.dump(data, f)
WriteFile(fs, cache_file, data) ==
    [p \in (DOMAIN fs) \cup {cache_file} |-> IF p = cache_file THEN data ELSE fs[p]]

\* {'date': date, 'period': period, 'scanned_stocks': [], 'results': {}}
NewData(date, period) ==
    [date |-> date, period |-> period, scanned_stocks |-> <<>>, results |-> <<>>]

\* GetScannedStocks with the date argument dropped: always today's document
GetScannedStocksToday(fs, today, scan_type, date, scan_scope, period) ==
    LET cache_file == CacheFilePath(today, scan_type, today, scan_scope, period) IN
    IF ~Exists(fs, cache_file)
    THEN [value |-> {}, files |-> fs]
    ELSE IF fs[cache_file].date = today
         THEN [value |-> Range(fs[cache_file].scanned_stocks), files |-> fs]
         ELSE [value |-> {}, files |-> Remove(fs, cache_file)]

\* get_scanned_stocks: the returned set and the directory afterwards
GetScannedStocks(fs, today, scan_type, date, scan_scope, period) ==
    LET d == ResolveDate(today, date)
        cache_file == CacheFilePath(today, scan_type, d, scan_scope, period)
    IN  IF ~Exists(fs, cache_file)
        THEN [value |-> {}, files |-> fs]
        ELSE IF fs[cache_file].date = d
             THEN [value |-> Range(fs[cache_file].scanned_stocks), files |-> fs]
             ELSE [value |-> {}, files |-> Remove(fs, cache_file)]

\* get_cached_results_from_other_scope: the result dict, or None
GetCachedResultsFromOtherScope(fs, today, scan_type, symbol, date, other_scope) ==
    LET d == ResolveDate(today, date)
        cache_file == CacheFilePath(today, scan_type, d, other_scope, None)
    IN  IF other_scope = None THEN NoResult
        ELSE IF ~Exists(fs, cache_file) THEN NoResult
        ELSE IF fs[cache_file].date = d
             THEN DictGet(fs[cache_file].results, symbol)
             ELSE NoResult

\* add_scanned_stock, lines 153-161: the document read, or a fresh one
AddLoad(fs, cache_file, date, period) ==
    IF Exists(fs, cache_file) THEN fs[cache_file] ELSE NewData(date, period)

\* AddCheckKey with the period comparison left out
AddCheckKeyDateOnly(data, date, period) ==
    IF data.date # date THEN NewData(date, period) ELSE data

\* add_scanned_stock, lines 163-169: start over when date or period do not match
AddCheckKey(data, date, period) ==
    IF data.date # date THEN NewData(date, period)
    ELSE IF period # None /\ data.period # period THEN NewData(date, period)
    ELSE data

\* AddMark without the membership test
AddMarkAlways(data, symbol) ==
    [data EXCEPT !.scanned_stocks = Append(@, symbol)]

\* add_scanned_stock, lines 171-173
AddMark(data, symbol) ==
    IF symbol \notin Range(data.scanned_stocks)
    THEN [data EXCEPT !.scanned_stocks = Append(@, symbol)]
    ELSE data

\* AddSaveResult with the "result is not None" test dropped: a null is stored too
AddSaveResultAlways(data, symbol, result) ==
    [data EXCEPT !.results = DictSet(@, symbol, result)]

\* add_scanned_stock, lines 175-179
AddSaveResult(data, symbol, result) ==
    IF result # NoResult
    THEN [data EXCEPT !.results = DictSet(@, symbol, result)]
    ELSE data

\* add_scanned_stock: the directory afterwards
AddScannedStock(fs, today, scan_type, symbol, result, date, scan_scope, period) ==
    LET d == ResolveDate(today, date)
        cache_file == CacheFilePath(today, scan_type, d, scan_scope, period)
        data == AddCheckKey(AddLoad(fs, cache_file, d, period), d, period)
    IN  WriteFile(fs, cache_file, AddSaveResult(AddMark(data, symbol), symbol, result))

\* GetCachedResults without the period comparison
GetCachedResultsAnyPeriod(fs, today, scan_type, scan_scope, period) ==
    LET cache_file == CacheFilePath(today, scan_type, None, scan_scope, period) IN
    IF ~Exists(fs, cache_file) THEN <<>>
    ELSE IF fs[cache_file].date = today
         THEN DictValues(fs[cache_file].results)
         ELSE <<>>

\* get_cached_results: list(results.values()) of today's document, or []
GetCachedResults(fs, today, scan_type, scan_scope, period) ==
    LET cache_file == CacheFilePath(today, scan_type, None, scan_scope, period) IN
    IF ~Exists(fs, cache_file) THEN <<>>
    ELSE IF fs[cache_file].date = today
         THEN IF period # None /\ fs[cache_file].period # period
              THEN <<>>
              ELSE DictValues(fs[cache_file].results)
         ELSE <<>>

\* ClearTodayCache removing every file of the scan type, whatever scope and period
ClearWholeType(fs, today, scan_type, scan_scope, period) ==
    [p \in {q \in DOMAIN fs : q[1] # scan_type} |-> fs[p]]

\* clear_today_cache: the directory afterwards
ClearTodayCache(fs, today, scan_type, scan_scope, period) ==
    LET cache_file == CacheFilePath(today, scan_type, None, scan_scope, period) IN
    IF Exists(fs, cache_file) THEN Remove(fs, cache_file) ELSE fs

-----------------------------------------------------------------------------
(* A client of the ScanCache API: any method, any arguments, one call per step *)

Today == DateStr(clock)

NoCall ==
    [op |-> "none", scan_type |-> None, symbol |-> None, result |-> NoResult,
     date |-> None, scan_scope |-> None, period |-> None,
     cache_file |-> <<>>, data |-> NewData(None, None), value |-> None]

appVars == <<ss, tr, cc, oracle, mk, fn>>

CallGetScannedStocks(scan_type, date, scan_scope, period) ==
    LET r == GetScannedStocks(files, Today, scan_type, date, scan_scope, period) IN
    /\ ncalls < MaxCalls
    /\ ncalls' = ncalls + 1
    /\ files' = r.files
    /\ call' = [NoCall EXCEPT !.op = "get_scanned_stocks", !.scan_type = scan_type,
                   !.date = ResolveDate(Today, date), !.scan_scope = scan_scope,
                   !.period = period,
                   !.cache_file = CacheFilePath(Today, scan_type, date, scan_scope, period),
                   !.value = r.value]
    /\ UNCHANGED <<clock, appVars>>

CallAddScannedStock(scan_type, symbol, result, date, scan_scope, period) ==
    LET d == ResolveDate(Today, date)
        cache_file == CacheFilePath(Today, scan_type, date, scan_scope, period)
    IN
    /\ ncalls < MaxCalls
    /\ ncalls' = ncalls + 1
    /\ files' = AddScannedStock(files, Today, scan_type, symbol, result, date,
                                scan_scope, period)
    /\ call' = [NoCall EXCEPT !.op = "add_scanned_stock", !.scan_type = scan_type,
                   !.symbol = symbol, !.result = result, !.date = d,
                   !.scan_scope = scan_scope, !.period = period,
                   !.cache_file = cache_file,
                   !.data = AddLoad(files, cache_file, d, period)]
    /\ UNCHANGED <<clock, appVars>>

CallGetCachedResults(scan_type, scan_scope, period) ==
    /\ ncalls < MaxCalls
    /\ ncalls' = ncalls + 1
    /\ call' = [NoCall EXCEPT !.op = "get_cached_results", !.scan_type = scan_type,
                   !.date = Today, !.scan_scope = scan_scope, !.period = period,
                   !.cache_file = CacheFilePath(Today, scan_type, None, scan_scope, period),
                   !.value = GetCachedResults(files, Today, scan_type, scan_scope, period)]
    /\ UNCHANGED <<files, clock, appVars>>

CallClearTodayCache(scan_type, scan_scope, period) ==
    /\ ncalls < MaxCalls
    /\ ncalls' = ncalls + 1
    /\ files' = ClearTodayCache(files, Today, scan_type, scan_scope, period)
    /\ call' = [NoCall EXCEPT !.op = "clear_today_cache", !.scan_type = scan_type,
                   !.date = Today, !.scan_scope = scan_scope, !.period = period,
                   !.cache_file = CacheFilePath(Today, scan_type, None, scan_scope, period),
                   !.data = AddLoad(files, CacheFilePath(Today, scan_type, None, scan_scope,
                                                         period), Today, period)]
    /\ UNCHANGED <<clock, appVars>>

CallGetOtherScope(scan_type, symbol, date, other_scope) ==
    /\ ncalls < MaxCalls
    /\ ncalls' = ncalls + 1
    /\ call' = [NoCall EXCEPT !.op = "get_cached_results_from_other_scope",
                   !.scan_type = scan_type, !.symbol = symbol,
                   !.date = ResolveDate(Today, date), !.scan_scope = other_scope,
                   !.cache_file = CacheFilePath(Today, scan_type, date, other_scope, None),
                   !.value = GetCachedResultsFromOtherScope(files, Today, scan_type, symbol,
                                                            date, other_scope)]
    /\ UNCHANGED <<files, clock, appVars>>

\* midnight passes: datetime.now() moves to the next day
Midnight ==
    /\ clock < MaxDay
    /\ clock' = clock + 1
    /\ UNCHANGED <<files, call, ncalls, appVars>>

DateArgs == {None} \cup Dates

ResultArgs(symbol) == {NoResult, Result(symbol, "BUY")}

CacheInit ==
    /\ files = <<>>
    /\ clock = 1
    /\ call = NoCall
    /\ ncalls = 0
    /\ mk = None
    /\ fn = None
    /\ ss = None
    /\ tr = None
    /\ cc = None
    /\ oracle = None

CacheNext ==
    \/ \E t \in ScanTypes, d \in DateArgs, sc \in Scopes, p \in Periods :
          CallGetScannedStocks(t, d, sc, p)
    \/ \E t \in ScanTypes, s \in Symbols, d \in DateArgs, sc \in Scopes, p \in Periods :
          \E r \in ResultArgs(s) : CallAddScannedStock(t, s, r, d, sc, p)
    \/ \E t \in ScanTypes, sc \in Scopes, p \in Periods : CallGetCachedResults(t, sc, p)
    \/ \E t \in ScanTypes, sc \in Scopes, p \in Periods : CallClearTodayCache(t, sc, p)
    \/ \E t \in ScanTypes, s \in Symbols, d \in DateArgs, sc \in Scopes :
          CallGetOtherScope(t, s, d, sc)
    \/ Midnight

SpecCache == CacheInit /\ [][CacheNext]_vars

\* the cache directory after an earlier scan has stored one symbol under some key
ClearInit ==
    /\ clock = 1
    /\ call = NoCall
    /\ ncalls = 0
    /\ mk = None
    /\ fn = None
    /\ ss = None
    /\ tr = None
    /\ cc = None
    /\ oracle = None
    /\ \E t \in ScanTypes, sc \in Scopes, p \in Periods :
          files = AddScannedStock(<<>>, DateStr(1), t, "600001.SS",
                                  Result("600001.SS", "BUY"), None, sc, p)

\* scans that store today's results and users who clear today's records
ClearNext ==
    \/ \E t \in ScanTypes, s \in Symbols, sc \in Scopes, p \in Periods :
          CallAddScannedStock(t, s, Result(s, "BUY"), None, sc, p)
    \/ \E t \in ScanTypes, sc \in Scopes, p \in Periods : CallClearTodayCache(t, sc, p)
    \/ Midnight

SpecClear == ClearInit /\ [][ClearNext]_vars

-----------------------------------------------------------------------------
(* The symbol universe and the skip rules *)

\* get_all_a_stock_list: rows (symbol, name); a name is the sequence of its words
StockList ==
    << [symbol |-> "600001.SS", name |-> <<"PuFa">>],
       [symbol |-> "000002.SZ", name |-> <<"WanKe">>],
       [symbol |-> "300003.SZ", name |-> <<"LePu">>],
       [symbol |-> "000004.SZ", name |-> <<"*", "st", "HuaYi">>],
       [symbol |-> "600005.SS", name |-> <<"TUISHI", "HaiRun">>],
       [symbol |-> "920006.SZ", name |-> <<"BeiJiao">>] >>

\* symbol.replace('.SS', '').replace('.SZ', ''): the digits of the code
StripSuffix(symbol) ==
    CASE symbol = "600001.SS" -> <<6, 0, 0, 0, 0, 1>>
      [] symbol = "000002.SZ" -> <<0, 0, 0, 0, 0, 2>>
      [] symbol = "300003.SZ" -> <<3, 0, 0, 0, 0, 3>>
      [] symbol = "000004.SZ" -> <<0, 0, 0, 0, 0, 4>>
      [] symbol = "600005.SS" -> <<6, 0, 0, 0, 0, 5>>
      [] symbol = "920006.SZ" -> <<9, 2, 0, 0, 0, 6>>

\* str.upper() of one word of a name
Upper(word) == IF word = "st" THEN "ST" ELSE word

\* 'ST' in str(name).upper()
NameHasST(name) == \E i \in 1..Len(name) : Upper(name[i]) = "ST"

\* '退市' in str(name)
NameHasDelisted(name) == \E i \in 1..Len(name) : name[i] = "TUISHI"

StartsWith(code, prefix) ==
    Len(code) >= Len(prefix) /\ SubSeq(code, 1, Len(prefix)) = prefix

\* (code.startswith('920') or code.startswith('900')) and len(code) == 6
InvalidCode(symbol) ==
    LET code == StripSuffix(symbol) IN
    (StartsWith(code, <<9, 2, 0>>) \/ StartsWith(code, <<9, 0, 0>>)) /\ Len(code) = 6

\* concurrent_scanner.should_skip_stock
ShouldSkipStock(symbol, name) ==
    NameHasST(name) \/ NameHasDelisted(name) \/ InvalidCode(symbol)

\* DataFrame.head(n)
HeadRows(seq, n) == SubSeq(seq, 1, IF n < Len(seq) THEN n ELSE Len(seq))

\* What StockAnalyzer does for a symbol:
\*   "result"     fetch_data() is true, signals and info are produced
\*   "no_signal"  fetch_data() is true, signals or info is empty
\*   "no_data"    fetch_data() returns false
\*   "raise"      the constructor, the fetch or the scoring raises
Outcomes == {"result", "no_signal", "no_data", "raise"}

Analysable == {StockList[i].symbol : i \in {j \in 1..Len(StockList) :
                    ~ShouldSkipStock(StockList[j].symbol, StockList[j].name)}}

-----------------------------------------------------------------------------
(* appSimple.py: scan_all_stocks, one action per Streamlit script run *)

SerialScanType == "signal_analysis"
SerialScope == "all_stocks"

\* cache_date: the end_date widget, or today
CacheDate(s, today) == IF s.end_date = None THEN today ELSE s.end_date

NoRun == [branch |-> "none", symbol |-> None, period |-> None, cache_date |-> None]

RunOf(s, today, branch, symbol) ==
    [branch |-> branch, symbol |-> symbol, period |-> s.period,
     cache_date |-> CacheDate(s, today)]

\* lines 144-186: the keys of st.session_state a new session is given
SessionInit(s, fs, today) ==
    IF s.init THEN s
    ELSE LET cache_date == CacheDate(s, today)
             cache_file == CacheFilePath(today, SerialScanType, cache_date, SerialScope,
                                         s.period)
             cached_results ==
                 IF s.end_date # None
                 THEN IF Exists(fs, cache_file) /\ fs[cache_file].date = cache_date
                         /\ fs[cache_file].period = s.period
                      THEN DictValues(fs[cache_file].results)
                      ELSE <<>>
                 ELSE GetCachedResults(fs, today, SerialScanType, SerialScope, s.period)
         IN [s EXCEPT !.init = TRUE, !.scan_results = cached_results,
                      !.scanning = FALSE, !.current_scan_index = 0,
                      !.stop_requested = FALSE, !.last_period = s.period,
                      !.last_end_date = s.end_date]

\* lines 188-224: a changed period or end date resets the session's scan state
PeriodChanged(s) ==
    IF s.last_period # s.period \/ s.last_end_date # s.end_date
    THEN [s EXCEPT !.scan_results = <<>>, !.has_list = FALSE, !.stock_list = <<>>,
                   !.current_scan_index = 0, !.scanning = FALSE,
                   !.last_period = s.period, !.last_end_date = s.end_date]
    ELSE s

\* lines 239-251: the universe without ST and delisted names
OriginalStocks ==
    LET NoST(row) == ~NameHasST(row.name)
        NotDelisted(row) == ~NameHasDelisted(row.name)
    IN SelectSeq(SelectSeq(StockList, NoST), NotDelisted)

\* the scanned set of the serial scan's key
SerialScanned(s, fs, today) ==
    GetScannedStocks(fs, today, SerialScanType, CacheDate(s, today), SerialScope,
                     s.period).value

\* lines 226-272: the list to scan, built when the session has none
BuildList(s, fs, today) ==
    IF s.has_list /\ s.max_stocks_setting = s.max_stocks THEN s
    ELSE LET scanned_stocks == SerialScanned(s, fs, today)
             Unscanned(row) == row.symbol \notin scanned_stocks
             stock_list == SelectSeq(OriginalStocks, Unscanned)
         IN [s EXCEPT !.has_list = TRUE, !.max_stocks_setting = s.max_stocks,
                      !.stock_list = IF s.max_stocks >= Len(stock_list) \/ s.max_stocks = 0
                                     THEN stock_list
                                     ELSE HeadRows(stock_list, s.max_stocks)]

\* lines 124-338: everything a script run does before the buttons
Prelude(s, fs, today) == BuildList(PeriodChanged(SessionInit(s, fs, today)), fs, today)

\* lines 292-301: scanned symbols that belong to the universe
ScannedCount(s, fs, today) ==
    Cardinality(SerialScanned(s, fs, today) \cap Range([i \in 1..Len(OriginalStocks) |->
                                                          OriginalStocks[i].symbol]))

TotalStocks == Len(OriginalStocks)

\* SerialAlreadyScanned with the cache not consulted: the index alone decides
SerialIgnoreCache(s, fs, today, symbol) == FALSE

\* lines 467-469: the symbol is in the persisted scanned set of the key
SerialAlreadyScanned(s, fs, today, symbol) == symbol \in SerialScanned(s, fs, today)

\* SerialAnalyse without the try/except of lines 571-703: an exception ends the scan
SerialAnalyseAbort(s, fs, today, symbol, outcome) ==
    IF outcome = "raise" THEN [ss |-> [s EXCEPT !.scanning = FALSE], files |-> fs]
    ELSE IF outcome = "result"
    THEN [ss |-> [s EXCEPT !.scan_results = Append(@, Result(symbol, "BUY"))],
          files |-> AddScannedStock(fs, today, SerialScanType, symbol, Result(symbol, "BUY"),
                                    CacheDate(s, today), SerialScope, s.period)]
    ELSE IF outcome = "no_signal"
    THEN [ss |-> s,
          files |-> AddScannedStock(fs, today, SerialScanType, symbol, NoResult,
                                    CacheDate(s, today), SerialScope, s.period)]
    ELSE [ss |-> s, files |-> fs]

\* lines 571-703: the analysis of one symbol and what it writes to the cache
SerialAnalyse(s, fs, today, symbol, outcome) ==
    LET cache_date == CacheDate(s, today)
        result == Result(symbol, "BUY")
    IN  CASE outcome = "result" ->
               [ss |-> [s EXCEPT !.scan_results = Append(@, result)],
                files |-> AddScannedStock(fs, today, SerialScanType, symbol, result,
                                          cache_date, SerialScope, s.period)]
          [] outcome = "no_signal" ->
               [ss |-> s,
                files |-> AddScannedStock(fs, today, SerialScanType, symbol, NoResult,
                                          cache_date, SerialScope, s.period)]
          [] outcome = "no_data" ->
               [ss |-> s, files |-> fs]
          [] outcome = "raise" ->
               [ss |-> s,
                files |-> AddScannedStock(fs, today, SerialScanType, symbol, NoResult,
                                          cache_date, SerialScope, s.period)]

\* lines 449-749: the scanning block of one script run
ScanBlock(s, fs, today, behaviour) ==
    IF ~s.scanning THEN [ss |-> [s EXCEPT !.last = RunOf(s, today, "idle", None)],
                         files |-> fs]
    ELSE IF s.stop_requested
    THEN [ss |-> [s EXCEPT !.scanning = FALSE, !.stop_requested = FALSE,
                           !.last = RunOf(s, today, "stopped", None)],
          files |-> fs]
    ELSE IF s.current_scan_index < Len(s.stock_list)
    THEN LET row == s.stock_list[s.current_scan_index + 1]
             symbol == row.symbol
             next == [s EXCEPT !.current_scan_index = s.current_scan_index + 1]
             Skip(branch) == [ss |-> [next EXCEPT !.last = RunOf(s, today, branch, symbol)],
                              files |-> fs]
         IN  IF SerialAlreadyScanned(s, fs, today, symbol) THEN Skip("skip_scanned")
             ELSE IF NameHasST(row.name) THEN Skip("skip_st")
             ELSE IF NameHasDelisted(row.name) THEN Skip("skip_delisted")
             ELSE IF InvalidCode(symbol) THEN Skip("skip_invalid")
             ELSE LET done == SerialAnalyse(s, fs, today, symbol, behaviour[symbol])
                  IN [ss |-> [done.ss EXCEPT
                                 !.current_scan_index = s.current_scan_index + 1,
                                 !.last = RunOf(s, today, "analysed", symbol)],
                      files |-> done.files]
    ELSE [ss |-> [s EXCEPT !.scanning = FALSE, !.last = RunOf(s, today, "complete", None)],
          files |-> fs]

serialFrame == <<clock, call, ncalls, tr, cc, oracle, mk, fn>>

\* a script run with no button pressed: the rerun of a scan tick, or an idle run
RunScript ==
    LET s == Prelude(ss, files, Today)
        r == ScanBlock(s, files, Today, oracle)
    IN  /\ ss' = r.ss
        /\ files' = r.files
        /\ UNCHANGED serialFrame

\* lines 346-355: "start scan"
PressStart ==
    LET s == Prelude(ss, files, Today) IN
    /\ ~s.scanning
    /\ ss' = [(IF ScannedCount(s, files, Today) = 0
               THEN [s EXCEPT !.scan_results = <<>>, !.current_scan_index = 0]
               ELSE s)
              EXCEPT !.scanning = TRUE, !.last = RunOf(s, Today, "start", None)]
    /\ UNCHANGED <<files, serialFrame>>

\* a stop button whose handler sets no flag
PressStopIgnored ==
    LET s == Prelude(ss, files, Today) IN
    /\ s.scanning
    /\ ss' = [s EXCEPT !.last = RunOf(s, Today, "stop", None)]
    /\ UNCHANGED <<files, serialFrame>>

\* lines 359-364: "stop scan"
PressStop ==
    LET s == Prelude(ss, files, Today) IN
    /\ s.scanning
    /\ ss' = [s EXCEPT !.scanning = FALSE, !.stop_requested = TRUE,
                       !.last = RunOf(s, Today, "stop", None)]
    /\ UNCHANGED <<files, serialFrame>>

\* lines 365-369: "continue scan"
PressContinue ==
    LET s == Prelude(ss, files, Today)
        scanned_count == ScannedCount(s, files, Today)
    IN
    /\ ~s.scanning
    /\ scanned_count > 0 /\ scanned_count < TotalStocks
    /\ ss' = [s EXCEPT !.scanning = TRUE, !.last = RunOf(s, Today, "continue", None)]
    /\ UNCHANGED <<files, serialFrame>>

\* lines 371-379: "restart"
PressRestart ==
    LET s == Prelude(ss, files, Today) IN
    /\ ScannedCount(s, files, Today) > 0
    /\ ss' = [s EXCEPT !.scan_results = <<>>, !.scanning = FALSE,
                       !.current_scan_index = 0,
                       !.last = RunOf(s, Today, "restart", None)]
    /\ UNCHANGED <<files, serialFrame>>

\* lines 381-429: "clear today's records"
PressClear ==
    LET s == Prelude(ss, files, Today) IN
    /\ files' = ClearTodayCache(files, Today, SerialScanType, SerialScope, s.period)
    /\ ss' = [s EXCEPT !.scan_results = <<>>, !.has_list = FALSE, !.stock_list = <<>>,
                       !.current_scan_index = 0, !.scanning = FALSE,
                       !.last = RunOf(s, Today, "clear", None)]
    /\ UNCHANGED serialFrame

\* the user picks another data period in the sidebar, which runs the script
ChangePeriod(p) ==
    /\ ss.changes < MaxChanges
    /\ p # ss.period
    /\ LET s == Prelude([ss EXCEPT !.period = p, !.changes = ss.changes + 1], files, Today)
           r == ScanBlock(s, files, Today, oracle)
       IN  /\ ss' = r.ss
           /\ files' = r.files
    /\ UNCHANGED serialFrame

\* the browser session ends (reload, server restart): st.session_state starts empty
NewSession(s) ==
    [init |-> FALSE, scan_results |-> <<>>, scanning |-> FALSE, current_scan_index |-> 0,
     stop_requested |-> FALSE, last_period |-> None, last_end_date |-> None,
     has_list |-> FALSE, stock_list |-> <<>>, max_stocks_setting |-> 0,
     period |-> s.period, end_date |-> s.end_date, max_stocks |-> s.max_stocks,
     changes |-> s.changes, lost |-> s.lost + 1, last |-> NoRun]

LoseSession ==
    /\ ss.init
    /\ ss.lost < MaxLost
    /\ ss' = NewSession(ss)
    /\ UNCHANGED <<files, serialFrame>>

SerialPeriods == {"1mo", "3mo"}

\* the sessions a browser can open: with or without a query date and a stock cap
SerialSessions ==
    {NewSession([period |-> "1mo", end_date |-> e, max_stocks |-> m,
                 changes |-> 0, lost |-> -1]) : e \in {None, DateStr(MaxDay)},
                                                m \in {0, MaxStocks}}

SerialInit ==
    /\ files = <<>>
    /\ clock = 1
    /\ call = NoCall
    /\ ncalls = 0
    /\ mk = None
    /\ fn = None
    /\ tr = None
    /\ cc = None
    /\ oracle \in [Analysable -> Outcomes]
    /\ ss \in SerialSessions

SerialNext ==
    \/ RunScript
    \/ PressStart
    \/ PressStop
    \/ PressContinue
    \/ PressRestart
    \/ PressClear
    \/ \E p \in SerialPeriods : ChangePeriod(p)
    \/ LoseSession

SpecSerial == SerialInit /\ [][SerialNext]_vars

-----------------------------------------------------------------------------
(* concurrent_scanner.py: analyze_stocks_concurrent and its worker threads *)

ConcScanType == "signal_analysis"

\* lines 179-185: the rows that should_skip_stock lets through
ValidStocks(stock_list) ==
    LET Valid(row) == ~ShouldSkipStock(row.symbol, row.name)
    IN SelectSeq(stock_list, Valid)

\* lines 190-194: batch number b (from 1) of valid_stocks
Batch(valid_stocks, b) ==
    SubSeq(valid_stocks, (b - 1) * BatchSize + 1,
           IF b * BatchSize < Len(valid_stocks) THEN b * BatchSize ELSE Len(valid_stocks))

NumBatches(valid_stocks) == (Len(valid_stocks) + BatchSize - 1) \div BatchSize

\* lines 201-210: every row of the batch is submitted to the executor
Submit(c, b) ==
    [c EXCEPT !.batch_idx = b, !.batch_results = <<>>,
              !.future = [sym \in {Batch(c.valid_stocks, b)[i].symbol :
                                      i \in 1..Len(Batch(c.valid_stocks, b))}
                          |-> [state |-> "submitted", value |-> NoResult,
                               collected |-> FALSE]]]

concFrame == <<clock, call, ncalls, ss, tr, oracle, mk, fn>>

\* lines 176-198: the call of analyze_stocks_concurrent
ConcCall ==
    /\ cc.pc = "idle"
    /\ LET valid_stocks == ValidStocks(cc.stock_list)
           c == [cc EXCEPT !.valid_stocks = valid_stocks, !.results = <<>>,
                           !.failed_stocks = <<>>]
       IN cc' = IF valid_stocks = <<>>
                THEN [c EXCEPT !.pc = "returned"]
                ELSE [Submit(c, 1) EXCEPT !.pc = "batch"]
    /\ UNCHANGED <<files, concFrame>>

\* the mutant of WorkerStart: an executor without a limit on its threads
WorkerStartUnbounded(sym) ==
    /\ cc.pc = "batch"
    /\ sym \in DOMAIN cc.future
    /\ cc.future[sym].state = "submitted"
    /\ cc' = [cc EXCEPT !.future[sym].state = "running"]
    /\ UNCHANGED <<files, concFrame>>

\* the executor gives a submitted task one of its max_workers threads
WorkerStart(sym) ==
    /\ cc.pc = "batch"
    /\ sym \in DOMAIN cc.future
    /\ cc.future[sym].state = "submitted"
    /\ Cardinality({t \in DOMAIN cc.future : cc.future[t].state = "running"})
          < cc.max_workers
    /\ cc' = [cc EXCEPT !.future[sym].state = "running"]
    /\ UNCHANGED <<files, concFrame>>

\* analyze_single_stock_worker, lines 52-155: what the worker writes to the cache
WorkerSave(fs, today, c, sym, outcome) ==
    IF outcome = "result"
    THEN AddScannedStock(fs, today, ConcScanType, sym, Result(sym, "BUY"),
                         c.cache_date, c.scan_scope, c.period)
    ELSE fs

\* analyze_single_stock_worker returns: its save, under _result_lock, is one step;
\* a worker whose fetch blocks never gets here
WorkerReturn(sym) ==
    /\ cc.pc = "batch"
    /\ sym \in DOMAIN cc.future
    /\ cc.future[sym].state = "running"
    /\ oracle[sym] # "hang"
    /\ files' = WorkerSave(files, Today, cc, sym, oracle[sym])
    /\ cc' = [cc EXCEPT !.future[sym].state = "done",
                        !.future[sym].value = IF oracle[sym] = "result"
                                              THEN Result(sym, "BUY") ELSE NoResult]
    /\ UNCHANGED concFrame

\* lines 214-226: as_completed yields a finished future
Collect(sym) ==
    /\ cc.pc = "batch"
    /\ sym \in DOMAIN cc.future
    /\ cc.future[sym].state = "done"
    /\ ~cc.future[sym].collected
    /\ cc' = IF cc.future[sym].value # NoResult
             THEN [cc EXCEPT !.future[sym].collected = TRUE,
                             !.batch_results = Append(@, cc.future[sym].value)]
             ELSE [cc EXCEPT !.future[sym].collected = TRUE,
                             !.failed_stocks = Append(@, sym)]
    /\ UNCHANGED <<files, concFrame>>

\* lines 228-234: the batch is over; the next one is submitted or the call returns
BatchEnd ==
    /\ cc.pc = "batch"
    /\ \A sym \in DOMAIN cc.future : cc.future[sym].collected
    /\ LET c == [cc EXCEPT !.results = @ \o cc.batch_results]
       IN cc' = IF cc.batch_idx < NumBatches(cc.valid_stocks)
                THEN Submit(c, cc.batch_idx + 1)
                ELSE [c EXCEPT !.pc = "returned"]
    /\ UNCHANGED <<files, concFrame>>

\* what a worker can do with a symbol: the outcomes of the analysis, or
\*   "hang"       the fetch blocks and the worker never returns
ConcOutcomes == Outcomes \cup {"hang"}

\* the calls of analyze_stocks_concurrent: a tail of the list, a period, max_workers
ConcCalls ==
    {[pc |-> "idle", stock_list |-> SubSeq(StockList, n + 1, Len(StockList)),
      period |-> p, scan_scope |-> "all_stocks", cache_date |-> DateStr(1),
      valid_stocks |-> <<>>, batch_idx |-> 0, future |-> <<>>,
      batch_results |-> <<>>, results |-> <<>>, failed_stocks |-> <<>>,
      max_workers |-> w] :
        n \in 0..Len(StockList), p \in SerialPeriods, w \in 1..MaxWorkers}

ConcInit ==
    /\ files = <<>>
    /\ clock = 1
    /\ call = NoCall
    /\ ncalls = 0
    /\ mk = None
    /\ fn = None
    /\ ss = None
    /\ tr = None
    /\ oracle \in [Analysable -> ConcOutcomes]
    /\ cc \in ConcCalls

ConcNext ==
    \/ ConcCall
    \/ \E sym \in Analysable : WorkerStart(sym)
    \/ \E sym \in Analysable : WorkerReturn(sym)
    \/ \E sym \in Analysable : Collect(sym)
    \/ BatchEnd

SpecConc == ConcInit /\ [][ConcNext]_vars

\* the executor runs every submitted task and the main thread is never starved
SpecConcFair == SpecConc /\ WF_vars(ConcNext)

-----------------------------------------------------------------------------
(* the two scan modes side by side: a run is either a serial session of
   appSimple.py or a call of analyze_stocks_concurrent; fn names the mode *)

ModesInit ==
    /\ files = <<>>
    /\ clock = 1
    /\ call = NoCall
    /\ ncalls = 0
    /\ mk = None
    /\ tr = None
    /\ \/ /\ fn = "serial"
          /\ cc = None
          /\ oracle \in [Analysable -> Outcomes]
          /\ ss \in SerialSessions
       \/ /\ fn = "concurrent"
          /\ ss = None
          /\ oracle \in [Analysable -> ConcOutcomes]
          /\ cc \in ConcCalls

ModesNext ==
    \/ fn = "serial" /\ SerialNext
    \/ fn = "concurrent" /\ ConcNext

SpecModes == ModesInit /\ [][ModesNext]_vars

-----------------------------------------------------------------------------
(* appFull.py: scan_trend_start_signals, one session per scan scope, the two
   sessions sharing the cache directory; one action per Streamlit script run *)

TrendScanType == "trend_start_signal"
TrendScopes == {"all_stocks", "strong_sectors"}

\* the scope a scan of scope sc also consults
OtherScope(sc) == IF sc = "all_stocks" THEN "strong_sectors" ELSE "all_stocks"

\* get_all_a_stock_list() as the trend scan receives it: every row, the rows with a
\* delisted name included (appFull.py tests no name for the delisted mark)
TrendStockList == StockList

\* get_stocks_by_sectors(strong_sector_names): the members of the strong sectors
StrongSectorStocks == SelectSeq(TrendStockList, LAMBDA row :
                         row.symbol \in {"600001.SS", "000002.SZ", "000004.SZ"})

\* lines 546-578: the universe of a scope
TrendUniverse(sc) == IF sc = "all_stocks" THEN TrendStockList ELSE StrongSectorStocks

\* code.startswith('920') and len(code) == 6
Invalid920(symbol) ==
    LET code == StripSuffix(symbol) IN StartsWith(code, <<9, 2, 0>>) /\ Len(code) = 6

\* the symbols a trend scan can analyse
TrendAnalysable == {TrendStockList[i].symbol : i \in {j \in 1..Len(TrendStockList) :
                        /\ ~NameHasST(TrendStockList[j].name)
                        /\ ~Invalid920(TrendStockList[j].symbol)}}

\* analyze_single_stock_for_trend_signal returns (False, result) or (False, None);
\* no data and every exception come back as (False, None)
TrendOutcomes == {"result", "no_signal"}

\* get_scanned_stocks('trend_start_signal', scan_scope=sc)
TrendScanned(fs, today, sc) ==
    GetScannedStocks(fs, today, TrendScanType, None, sc, None).value

\* [r.get('symbol') for r in trend_results]
ResultSymbols(results) == {results[i].symbol : i \in 1..Len(results)}

NoTrendRun == [branch |-> "none", symbol |-> None]

\* lines 508-517: the keys of st.session_state a new session is given
TrendSessionInit(s, fs, today, sc) ==
    IF s.init THEN s
    ELSE [s EXCEPT !.init = TRUE, !.trend_scanning = FALSE, !.trend_index = 0,
                   !.trend_results = GetCachedResults(fs, today, TrendScanType, sc, None)]

\* lines 621-637: the results a strong_sectors list build takes from all_stocks
RECURSIVE TakeFromAllStocks(_, _, _, _)
TakeFromAllStocks(results, rows, fs, today) ==
    IF rows = <<>> THEN results
    ELSE LET symbol == Head(rows).symbol
             cached_result == GetCachedResultsFromOtherScope(fs, today, TrendScanType,
                                                             symbol, None, "all_stocks")
         IN TakeFromAllStocks(
                IF /\ symbol \in TrendScanned(fs, today, "all_stocks")
                   /\ cached_result # NoResult
                   /\ symbol \notin ResultSymbols(results)
                THEN Append(results, cached_result) ELSE results,
                Tail(rows), fs, today)

\* lines 544-689: the list to scan, built when the session has none or an empty one
TrendBuildList(s, fs, today, sc) ==
    IF s.has_list /\ s.trend_filtered_stocks # <<>> THEN s
    ELSE LET universe == TrendUniverse(sc)
             scanned_stocks == TrendScanned(fs, today, sc)
                                  \cup TrendScanned(fs, today, OtherScope(sc))
             NoST(row) == ~NameHasST(row.name)
             Unscanned(row) == row.symbol \notin scanned_stocks
             filtered_stocks == SelectSeq(SelectSeq(universe, NoST), Unscanned)
         IN [s EXCEPT !.has_list = TRUE,
                      !.trend_results = IF sc = "strong_sectors"
                                        THEN TakeFromAllStocks(@, universe, fs, today)
                                        ELSE @,
                      !.trend_filtered_stocks =
                          IF s.max_stocks > 0 /\ Len(filtered_stocks) > s.max_stocks
                          THEN HeadRows(filtered_stocks, s.max_stocks)
                          ELSE filtered_stocks]

\* lines 500-705: everything a script run does before the buttons
TrendPrelude(s, fs, today, sc) ==
    TrendBuildList(TrendSessionInit(s, fs, today, sc), fs, today, sc)

\* the scanned set of the scope alone, without the union of lines 879-881
TrendCurrentScannedOwn(fs, today, sc) == TrendScanned(fs, today, sc)

\* lines 877-883: the scanned set a tick tests the symbol against
TrendCurrentScanned(fs, today, sc) ==
    IF sc = "all_stocks"
    THEN TrendScanned(fs, today, sc) \cup TrendScanned(fs, today, "strong_sectors")
    ELSE TrendScanned(fs, today, sc)

\* lines 818-1031: the scanning block of one script run
TrendScanBlock(s, fs, today, sc, behaviour) ==
    IF ~s.trend_scanning
    THEN [tr |-> [s EXCEPT !.last = [branch |-> "idle", symbol |-> None]], files |-> fs]
    ELSE IF s.trend_index < Len(s.trend_filtered_stocks)
    THEN LET row == s.trend_filtered_stocks[s.trend_index + 1]
             symbol == row.symbol
             next == [s EXCEPT !.trend_index = s.trend_index + 1]
             Skip(branch) ==
                 [tr |-> [next EXCEPT !.last = [branch |-> branch, symbol |-> symbol]],
                  files |-> fs]
             cached_result == GetCachedResultsFromOtherScope(fs, today, TrendScanType,
                                                             symbol, None, "all_stocks")
         IN  IF NameHasST(row.name) THEN Skip("skip_st")
             ELSE IF Invalid920(symbol) THEN Skip("skip_invalid")
             ELSE IF /\ sc = "strong_sectors"
                     /\ symbol \in TrendScanned(fs, today, "all_stocks")
                     /\ cached_result # NoResult
             THEN [tr |-> [next EXCEPT
                             !.trend_results = IF symbol \in ResultSymbols(@) THEN @
                                               ELSE Append(@, cached_result),
                             !.last = [branch |-> "reuse", symbol |-> symbol]],
                   files |-> AddScannedStock(fs, today, TrendScanType, symbol,
                                             cached_result, None, sc, None)]
             ELSE IF symbol \in TrendCurrentScanned(fs, today, sc)
             THEN Skip("skip_scanned")
             ELSE LET result == IF behaviour[symbol] = "result"
                                THEN Result(symbol, "TREND_START") ELSE NoResult
                  IN [tr |-> [next EXCEPT
                                 !.trend_results = IF result # NoResult
                                                   THEN Append(@, result) ELSE @,
                                 !.last = [branch |-> "analysed", symbol |-> symbol]],
                      files |-> AddScannedStock(fs, today, TrendScanType, symbol,
                                                result, None, sc, None)]
    ELSE [tr |-> [s EXCEPT !.trend_scanning = FALSE,
                           !.last = [branch |-> "complete", symbol |-> None]],
          files |-> fs]

trendFrame == <<clock, call, ncalls, ss, cc, oracle, mk, fn>>

\* a script run of the session of scope sc with no button pressed
TrendRun(sc) ==
    LET s == TrendPrelude(tr[sc], files, Today, sc)
        r == IF s.trend_filtered_stocks = <<>>
             THEN [tr |-> [s EXCEPT !.last = [branch |-> "empty", symbol |-> None]],
                   files |-> files]
             ELSE TrendScanBlock(s, files, Today, sc, oracle)
    IN  /\ tr' = [tr EXCEPT ![sc] = r.tr]
        /\ files' = r.files
        /\ UNCHANGED trendFrame

\* lines 769-776: "start scan"
TrendStart(sc) ==
    LET s == TrendPrelude(tr[sc], files, Today, sc) IN
    /\ s.trend_filtered_stocks # <<>>
    /\ ~s.trend_scanning
    /\ tr' = [tr EXCEPT ![sc] = [s EXCEPT !.trend_scanning = TRUE, !.trend_index = 0,
                                          !.last = [branch |-> "start", symbol |-> None]]]
    /\ UNCHANGED <<files, trendFrame>>

\* lines 781-784: "stop scan"
TrendStop(sc) ==
    LET s == TrendPrelude(tr[sc], files, Today, sc) IN
    /\ s.trend_filtered_stocks # <<>>
    /\ s.trend_scanning
    /\ tr' = [tr EXCEPT ![sc] = [s EXCEPT !.trend_scanning = FALSE,
                                          !.last = [branch |-> "stop", symbol |-> None]]]
    /\ UNCHANGED <<files, trendFrame>>

\* lines 786-801: "clear today's scan records"
TrendClear(sc) ==
    LET s == TrendPrelude(tr[sc], files, Today, sc) IN
    /\ s.trend_filtered_stocks # <<>>
    /\ ~s.trend_scanning
    /\ files' = ClearTodayCache(files, Today, TrendScanType, sc, None)
    /\ tr' = [tr EXCEPT ![sc] = [s EXCEPT !.has_list = FALSE,
                                          !.trend_filtered_stocks = <<>>,
                                          !.trend_results = <<>>, !.trend_index = 0,
                                          !.last = [branch |-> "clear", symbol |-> None]]]
    /\ UNCHANGED trendFrame

\* st.session_state of a session that has not run the script yet
NewTrendSession(max_stocks, lost) ==
    [init |-> FALSE, trend_scanning |-> FALSE, trend_results |-> <<>>, trend_index |-> 0,
     has_list |-> FALSE, trend_filtered_stocks |-> <<>>, max_stocks |-> max_stocks,
     lost |-> lost, last |-> NoTrendRun]

\* the browser session of scope sc ends and a new one takes its place
TrendLoseSession(sc) ==
    /\ tr[sc].init
    /\ tr["all_stocks"].lost + tr["strong_sectors"].lost < MaxLost
    /\ tr' = [tr EXCEPT ![sc] = NewTrendSession(tr[sc].max_stocks, tr[sc].lost + 1)]
    /\ UNCHANGED <<files, trendFrame>>

TrendInit ==
    /\ files = <<>>
    /\ clock = 1
    /\ call = NoCall
    /\ ncalls = 0
    /\ mk = None
    /\ fn = None
    /\ ss = None
    /\ cc = None
    /\ oracle \in [TrendAnalysable -> TrendOutcomes]
    /\ tr = [sc \in TrendScopes |-> NewTrendSession(MaxStocks, 0)]

TrendNext ==
    \E sc \in TrendScopes :
        \/ TrendRun(sc)
        \/ TrendStart(sc)
        \/ TrendStop(sc)
        \/ TrendClear(sc)
        \/ TrendLoseSession(sc)

SpecTrend == TrendInit /\ [][TrendNext]_vars

-----------------------------------------------------------------------------
(* scan_cache.py market-environment cache and step 1 of scan_trend_start_signals *)

\* datetime.now().strftime('%Y-%m-%d'), and the first 10 characters of a timestamp
DashStr(day) == <<"2025-01-06", "2025-01-07", "2025-01-08", "2025-01-09">>[day]

\* market_status of calculate_market_sentiment
MarketStatuses == {"positive", "neutral", "cautious"}

\* analyze_market_environment: the result dict, stamped with the time of the analysis
AnalyzeMarketEnvironment(day, status) ==
    [market_status |-> status, timestamp |-> DashStr(day)]

\* save_market_environment: the market_env_<today>.json files afterwards
SaveMarketEnvironment(mfile, day, market_env, ok) ==
    IF ok
    THEN [d \in (DOMAIN mfile) \cup {DateStr(day)} |->
             IF d = DateStr(day) THEN market_env ELSE mfile[d]]
    ELSE mfile

\* GetMarketEnvironment that never finds a file
GetMarketEnvironmentMiss(mfile, day) == [value |-> <<>>, file |-> mfile]

\* get_market_environment: the dict (as a one-element sequence) or None (empty),
\* and the files afterwards
GetMarketEnvironment(mfile, day) ==
    IF DateStr(day) \notin DOMAIN mfile THEN [value |-> <<>>, file |-> mfile]
    ELSE IF mfile[DateStr(day)].timestamp # DashStr(day)
         THEN [value |-> <<>>,
               file |-> [d \in (DOMAIN mfile) \ {DateStr(day)} |-> mfile[d]]]
         ELSE [value |-> <<mfile[DateStr(day)]>>, file |-> mfile]

\* clear_market_environment_cache
ClearMarketEnvironmentCache(mfile, day) ==
    [d \in (DOMAIN mfile) \ {DateStr(day)} |-> mfile[d]]

marketFrame == <<files, call, ncalls, ss, tr, cc, oracle, fn>>

\* appFull.py line 383: a script run starts and reads the cache
MarketGet ==
    /\ mk.pc = "idle"
    /\ LET r == GetMarketEnvironment(mk.file, clock)
       IN mk' = [mk EXCEPT !.file = r.file, !.market_env = r.value,
                           !.pc = IF r.value = <<>> THEN "analyse" ELSE "shown"]
    /\ UNCHANGED <<clock, marketFrame>>

\* lines 387-390 and 403-405: MarketAnalyzer().analyze_market_environment()
MarketAnalyse(status) ==
    /\ mk.pc \in {"analyse", "reanalyse"}
    /\ mk.analyses < MaxAnalyses
    /\ mk' = [mk EXCEPT !.market_env = <<AnalyzeMarketEnvironment(clock, status)>>,
                        !.analyses = mk.analyses + 1,
                        !.pc = IF mk.pc = "analyse" THEN "save" ELSE "resave"]
    /\ UNCHANGED <<clock, marketFrame>>

\* lines 393-394 and 406-408: the result is saved (a failed write is only printed)
MarketSave(ok) ==
    /\ mk.pc \in {"save", "resave"}
    /\ mk' = [mk EXCEPT !.file = SaveMarketEnvironment(mk.file, clock, mk.market_env[1], ok),
                        !.pc = IF mk.pc = "save" THEN "done" ELSE "idle"]
    /\ UNCHANGED <<clock, marketFrame>>

\* lines 401-402: the "re-analyse market environment" button of a run that read the file
MarketPressReanalyse ==
    /\ mk.pc = "shown"
    /\ mk' = [mk EXCEPT !.file = ClearMarketEnvironmentCache(mk.file, clock),
                        !.pc = "reanalyse"]
    /\ UNCHANGED <<clock, marketFrame>>

\* the script run ends, or is cut short (rerun, closed browser, restarted server)
MarketEndRun ==
    /\ mk.pc # "idle"
    /\ mk' = [mk EXCEPT !.pc = "idle", !.market_env = <<>>]
    /\ UNCHANGED <<clock, marketFrame>>

MarketInit ==
    /\ files = <<>>
    /\ clock = 1
    /\ call = NoCall
    /\ ncalls = 0
    /\ ss = None
    /\ tr = None
    /\ cc = None
    /\ oracle = None
    /\ fn = None
    /\ mk = [file |-> <<>>, pc |-> "idle", market_env |-> <<>>, analyses |-> 0]

MarketNext ==
    \/ MarketGet
    \/ \E status \in MarketStatuses : MarketAnalyse(status)
    \/ \E ok \in BOOLEAN : MarketSave(ok)
    \/ MarketPressReanalyse
    \/ MarketEndRun
    \/ Midnight

SpecMarket == MarketInit /\ [][MarketNext]_vars

-----------------------------------------------------------------------------
(* stock_analyzer.py: StockAnalyzer.generate_signals *)

\* a local variable of the Python function that no statement has assigned yet
Unbound == "<unbound>"

\* ClassifySignal with strict comparisons at every threshold
ClassifySignalStrict(total_score, net_score) ==
    IF total_score = 0 THEN [signal |-> "HOLD", signal_type |-> Unbound]
    ELSE IF net_score > 8 THEN [signal |-> "STRONG_BUY", signal_type |-> "BUY"]
    ELSE IF net_score > 4 THEN [signal |-> "BUY", signal_type |-> "BUY"]
    ELSE IF net_score > 2 THEN [signal |-> "CAUTIOUS_BUY", signal_type |-> "BUY"]
    ELSE IF net_score < -8 THEN [signal |-> "STRONG_SELL", signal_type |-> "SELL"]
    ELSE IF net_score < -4 THEN [signal |-> "SELL", signal_type |-> "SELL"]
    ELSE IF net_score < -2 THEN [signal |-> "CAUTIOUS_SELL", signal_type |-> "SELL"]
    ELSE [signal |-> "HOLD", signal_type |-> "HOLD"]

\* lines 825-855: the graded thresholds; the first branch assigns no signal_type
ClassifySignal(total_score, net_score) ==
    IF total_score = 0 THEN [signal |-> "HOLD", signal_type |-> Unbound]
    ELSE IF net_score >= 8 THEN [signal |-> "STRONG_BUY", signal_type |-> "BUY"]
    ELSE IF net_score >= 4 THEN [signal |-> "BUY", signal_type |-> "BUY"]
    ELSE IF net_score >= 2 THEN [signal |-> "CAUTIOUS_BUY", signal_type |-> "BUY"]
    ELSE IF net_score <= -8 THEN [signal |-> "STRONG_SELL", signal_type |-> "SELL"]
    ELSE IF net_score <= -4 THEN [signal |-> "SELL", signal_type |-> "SELL"]
    ELSE IF net_score <= -2 THEN [signal |-> "CAUTIOUS_SELL", signal_type |-> "SELL"]
    ELSE [signal |-> "HOLD", signal_type |-> "HOLD"]

Min(a, b) == IF a < b THEN a ELSE b

\* the mutant of Strength: the share of the score in the total alone
StrengthBaseOnly(score, total_score) == (100 * score) \div total_score

\* lines 858-881: int(score / total * 100 * 0.6 + min(score / 18 * 100, 100) * 0.4),
\* capped at 100
Strength(score, total_score) ==
    Min((60 * score * 18 + Min(40 * score, 720) * total_score) \div (18 * total_score),
        100)

\* lines 884-898
StrengthLevel(signal_type, strength) ==
    IF signal_type \in {"BUY", "SELL"}
    THEN IF strength >= 80 THEN "L6"
         ELSE IF strength >= 70 THEN "L5"
         ELSE IF strength >= 60 THEN "L4"
         ELSE IF strength >= 50 THEN "L3"
         ELSE IF strength >= 40 THEN "L2"
         ELSE "L1"
    ELSE "L0"

\* what a call of generate_signals gives back: a dict, or an exception
Returned(signal, signal_type, strength, strength_level) ==
    [outcome |-> "return", signal |-> signal, signal_type |-> signal_type,
     strength |-> strength, strength_level |-> strength_level]

Raised(exception) ==
    [outcome |-> exception, signal |-> None, signal_type |-> None,
     strength |-> 0, strength_level |-> None]

\* lines 825-916: the signal dict built from the two scores that the indicator
\* rules (lines 669-823) added up; reading the unassigned signal_type raises
ScoreSeries(buy_score, sell_score) ==
    LET total_score == buy_score + sell_score
        net_score == buy_score - sell_score
        c == ClassifySignal(total_score, net_score)
    IN  IF c.signal_type = Unbound THEN Raised("UnboundLocalError")
        ELSE IF c.signal_type = "BUY"
        THEN Returned(c.signal, "BUY", Strength(buy_score, total_score),
                      StrengthLevel("BUY", Strength(buy_score, total_score)))
        ELSE IF c.signal_type = "SELL"
        THEN Returned(c.signal, "SELL", Strength(sell_score, total_score),
                      StrengthLevel("SELL", Strength(sell_score, total_score)))
        ELSE Returned(c.signal, "HOLD", 0, "L0")

\* generate_signals without the length test of line 667
GenerateSignalsAnyLength(bars, buy_score, sell_score) ==
    ScoreSeries(buy_score, sell_score)

\* generate_signals for a series of `bars` rows
GenerateSignals(bars, buy_score, sell_score) ==
    IF bars < MinBars THEN Returned("NONE", None, 0, None)
    ELSE ScoreSeries(buy_score, sell_score)

\* lengths of the price series handed to the analyser
BarCounts == {0, 1, MinBars - 1, MinBars, MinBars + 10}

pureFrame == <<files, clock, call, ncalls, ss, tr, cc, oracle, mk>>

\* a caller invokes analyzer.generate_signals()
CallGenerateSignals ==
    /\ fn.op = "none"
    /\ fn' = [fn EXCEPT !.op = "generate_signals",
                        !.out = GenerateSignals(fn.bars, fn.buy_score, fn.sell_score)]
    /\ UNCHANGED pureFrame

\* no cache directory and no session take part in a call of a pure function
PureInit ==
    /\ files = <<>>
    /\ clock = 1
    /\ call = NoCall
    /\ ncalls = 0
    /\ ss = None
    /\ tr = None
    /\ cc = None
    /\ oracle = None
    /\ mk = None

ScorerInit ==
    /\ PureInit
    /\ \E bars \in BarCounts, buy_score \in 0..MaxScore, sell_score \in 0..MaxScore :
          fn = [op |-> "none", bars |-> bars, buy_score |-> buy_score,
                sell_score |-> sell_score, out |-> Raised(None)]

ScorerNext == CallGenerateSignals

SpecScorer == ScorerInit /\ [][ScorerNext]_vars

-----------------------------------------------------------------------------
(* market_analyzer.py: TrendStartSignalDetector.check_trend_start_signal *)

\* a float is a one-element tuple, NaN the empty one; prices are in 1/1000 yuan
NaN == <<>>

\* round(x, 2) of a price in 1/1000 yuan (the prices used hold no tie)
Round2(x) == ((x + 5) \div 10) * 10

\* the rows a series needs before the detector looks at it
MinTrendBars == 20

\* the last rows of calculate_indicators() as the detector reads them; Volume_MA
\* is the 20-row rolling mean: NaN on a shorter series, and 0 only when Volume is
StockData ==
    { d \in [bars : {MinTrendBars - 1, MinTrendBars},
             Close : {10250, 10260}, prev_Close : {10000},
             MA5 : {10000, 10300}, MA10 : {10000, 10260}, MA10_3 : {9900, 10260},
             highest_10d : {10250, 10260, 10310, 10320},
             Volume : {0, 1799, 1800}, Volume_MA : {NaN, <<0>>, <<1000>>},
             RSI : {NaN, <<49>>, <<50>>, <<70>>, <<71>>},
             MACD : {0, 2}, MACD_Signal : {1, 2},
             prev_MACD : {NaN, <<1>>}, prev_MACD_Signal : {0, 1},
             Low : {9900, 9904}] :
        /\ d.highest_10d >= d.Close
        /\ d.highest_10d = d.Close \/ d.highest_10d > 10300
        /\ (d.bars < MinTrendBars) <=> (d.Volume_MA = NaN)
        /\ (d.Volume_MA = <<0>>) => (d.Volume = 0) }

\* what the detector returns: (passed, reason, details)
Detected(passed, reason, stop_loss, signal_strength) ==
    [passed |-> passed, reason |-> reason, stop_loss |-> stop_loss,
     signal_strength |-> signal_strength]

\* check_trend_start_signal without the indicator gate of lines 530-551
CheckTrendStartSignalNoConfluence(d) ==
    LET volume_ok == d.Volume_MA # NaN /\ d.Volume_MA[1] > 0
                     /\ 10 * d.Volume >= 18 * d.Volume_MA[1]
    IN  IF d.bars < MinTrendBars THEN Detected(FALSE, "data", None, None)
        ELSE IF ~(d.Close > d.MA10 /\ d.MA5 > d.MA10 /\ d.MA10 > d.MA10_3)
        THEN Detected(FALSE, "trend", None, None)
        ELSE IF ~volume_ok THEN Detected(FALSE, "volume", None, None)
        ELSE IF ~(1000 * (d.Close - d.prev_Close) > 25 * d.prev_Close
                  /\ 1000 * d.Close >= 995 * d.highest_10d)
        THEN Detected(FALSE, "candle", None, None)
        ELSE Detected(TRUE, "ok", Round2(d.Low), 85)

\* check_trend_start_signal with the volume gate tested before the trend gate
CheckTrendStartSignalVolumeFirst(d) ==
    LET trend_ok == d.Close > d.MA10 /\ d.MA5 > d.MA10 /\ d.MA10 > d.MA10_3
        volume_ok == d.Volume_MA # NaN /\ d.Volume_MA[1] > 0
                     /\ 10 * d.Volume >= 18 * d.Volume_MA[1]
        candle_ok == /\ 1000 * (d.Close - d.prev_Close) > 25 * d.prev_Close
                     /\ 1000 * d.Close >= 995 * d.highest_10d
        rsi_ok == d.RSI # NaN /\ 50 <= d.RSI[1] /\ d.RSI[1] <= 70
        prev_macd == IF d.prev_MACD # NaN THEN d.prev_MACD[1] ELSE 0
        macd_ok == d.MACD > 0 /\ d.MACD > d.MACD_Signal
                   /\ prev_macd <= d.prev_MACD_Signal
    IN  IF d.bars < MinTrendBars THEN Detected(FALSE, "data", None, None)
        ELSE IF ~volume_ok THEN Detected(FALSE, "volume", None, None)
        ELSE IF ~trend_ok THEN Detected(FALSE, "trend", None, None)
        ELSE IF ~candle_ok THEN Detected(FALSE, "candle", None, None)
        ELSE IF ~(rsi_ok \/ macd_ok) THEN Detected(FALSE, "indicator", None, None)
        ELSE Detected(TRUE, "ok", Round2(d.Low), 85)

\* lines 451-564: four gates in order, the first that fails returns
CheckTrendStartSignal(d) ==
    LET ma10_slope_up == d.MA10 > d.MA10_3
        volume_ratio_ok == d.Volume_MA # NaN /\ d.Volume_MA[1] > 0
                           /\ 10 * d.Volume >= 18 * d.Volume_MA[1]
        price_change_ok == 1000 * (d.Close - d.prev_Close) > 25 * d.prev_Close
        is_new_high == 1000 * d.Close >= 995 * d.highest_10d
        rsi_ok == d.RSI # NaN /\ 50 <= d.RSI[1] /\ d.RSI[1] <= 70
        prev_macd == IF d.prev_MACD # NaN THEN d.prev_MACD[1] ELSE 0
        macd_ok == d.MACD > 0 /\ d.MACD > d.MACD_Signal
                   /\ prev_macd <= d.prev_MACD_Signal
    IN  IF d.bars < MinTrendBars THEN Detected(FALSE, "data", None, None)
        ELSE IF ~(d.Close > d.MA10 /\ d.MA5 > d.MA10 /\ ma10_slope_up)
        THEN Detected(FALSE, "trend", None, None)
        ELSE IF ~volume_ratio_ok THEN Detected(FALSE, "volume", None, None)
        ELSE IF ~(price_change_ok /\ is_new_high)
        THEN Detected(FALSE, "candle", None, None)
        ELSE IF ~(rsi_ok \/ macd_ok) THEN Detected(FALSE, "indicator", None, None)
        ELSE Detected(TRUE, "ok", Round2(d.Low), 85)

\* analyze_single_stock_for_trend_signal hands a series to the detector
CallCheckTrendStartSignal ==
    /\ fn.op = "none"
    /\ fn' = [fn EXCEPT !.op = "check_trend_start_signal",
                        !.out = CheckTrendStartSignal(fn.d)]
    /\ UNCHANGED pureFrame

DetectorInit ==
    /\ PureInit
    /\ \E d \in StockData :
          fn = [op |-> "none", d |-> d, out |-> Detected(FALSE, None, None, None)]

DetectorNext == CallCheckTrendStartSignal

SpecDetector == DetectorInit /\ [][DetectorNext]_vars

-----------------------------------------------------------------------------
(* market_analyzer.py: _check_long_term_trend, get_sector_strength_detailed *)

\* analyze_market_environment asks for top_n = 30
TopN == 30

\* the history of one sector as the two functions read it: its length, the last
\* close, the means of the last 60 and of the last 120 (or all) closes, and the
\* sum of its return, volume, money-flow and base-adjustment points (in tenths)
SectorHists ==
    [bars : {19, 59, 60}, price : {9, 11}, ma60 : {10}, ma120 : {9, 11},
     points : {0, 300}]

\* the board list: SectorNames[1..n], each with a history
SectorNames == <<"S1", "S2", "S3", "S4", "S5">>

\* _check_long_term_trend that never filters
CheckLongTermTrendNoFilter(h) ==
    [pass |-> TRUE, health |-> 0]

\* lines 151-211: (passes the filter, health score 0..100)
CheckLongTermTrend(h) ==
    IF h.bars < 60 THEN [pass |-> TRUE, health |-> 0]
    ELSE LET is_bearish == h.ma60 < h.ma120 /\ h.price < h.ma60
         IN  [pass |-> ~is_bearish,
              health |-> IF h.price > h.ma60 /\ h.ma60 > h.ma120 THEN 100
                         ELSE IF h.price > h.ma60 /\ 100 * h.ma60 > 95 * h.ma120 THEN 70
                         ELSE IF h.price > h.ma60 THEN 50
                         ELSE IF ~is_bearish THEN 30
                         ELSE 0]

\* list.sort(key=score, reverse=True): descending and stable
RECURSIVE SortByScore(_)
SortByScore(seq) ==
    IF seq = <<>> THEN <<>>
    ELSE LET x == Head(seq)
             rest == SortByScore(Tail(seq))
         IN  SelectSeq(rest, LAMBDA y : y.score > x.score) \o <<x>>
             \o SelectSeq(rest, LAMBDA y : y.score <= x.score)

\* lines 246-357: the sectors that get a score, in list order; a history of fewer
\* than 20 rows and a sector the trend filter rejects are skipped
ScoredSectors(hists) ==
    LET kept == SelectSeq([i \in 1..Len(hists) |-> [name |-> SectorNames[i], h |-> hists[i]]],
                          LAMBDA s : s.h.bars >= 20 /\ CheckLongTermTrend(s.h).pass)
    IN  [i \in 1..Len(kept) |->
            [name |-> kept[i].name,
             score |-> kept[i].h.points + (CheckLongTermTrend(kept[i].h).health * 50) \div 100]]

\* lines 359-376: sort, then cut to result_count
GetSectorStrengthDetailed(hists, top_n) ==
    LET sector_strength == SortByScore(ScoredSectors(hists))
        result_count == IF top_n <= 1 THEN (Len(sector_strength) * top_n) \div 100
                        ELSE Min(top_n, Len(sector_strength))
    IN  SubSeq(sector_strength, 1, result_count)

\* analyze_market_environment computes strong_sectors
CallGetSectorStrength ==
    /\ fn.op = "none"
    /\ fn' = [fn EXCEPT !.op = "get_sector_strength_detailed",
                        !.out = GetSectorStrengthDetailed(fn.hists, TopN)]
    /\ UNCHANGED pureFrame

SectorInit ==
    /\ PureInit
    /\ \E n \in 1..MaxSectors : \E hists \in [1..n -> SectorHists] :
          fn = [op |-> "none", hists |-> hists, out |-> <<>>]

SectorNext == CallGetSectorStrength

SpecSector == SectorInit /\ [][SectorNext]_vars

-----------------------------------------------------------------------------
(* concurrent_scanner.py: the workers of one batch saving under _result_lock,
   add_scanned_stock taken apart into its read and its write *)

\* a lock that lets every thread in
LockIgnored(lock) == TRUE

\* `with _result_lock:` lets a thread in when no thread holds the lock
LockFree(lock) == lock = None

\* the cache file of the run's key
LockFile == CacheFilePath(Today, ConcScanType, cc.cache_date, cc.scan_scope, cc.period)

\* lines 52-120: the analysis ends; only a result goes on to the save
WorkerAnalysed(sym) ==
    /\ cc.worker[sym].pc = "running"
    /\ cc' = [cc EXCEPT !.worker[sym].pc =
                            IF oracle[sym] = "result" THEN "saving" ELSE "returned"]
    /\ UNCHANGED <<files, concFrame>>

\* line 123: the worker enters `with _result_lock:`
LockAcquire(sym) ==
    /\ cc.worker[sym].pc = "saving"
    /\ LockFree(cc.lock)
    /\ cc' = [cc EXCEPT !.lock = sym, !.worker[sym].pc = "locked"]
    /\ UNCHANGED <<files, concFrame>>

\* scan_cache.py lines 153-169: add_scanned_stock reads the entry
LockedLoad(sym) ==
    /\ cc.worker[sym].pc = "locked"
    /\ cc' = [cc EXCEPT !.worker[sym].pc = "loaded",
                        !.worker[sym].data =
                            AddCheckKey(AddLoad(files, LockFile, cc.cache_date, cc.period),
                                        cc.cache_date, cc.period)]
    /\ UNCHANGED <<files, concFrame>>

\* scan_cache.py lines 171-192: add_scanned_stock writes the entry it changed
LockedWrite(sym) ==
    /\ cc.worker[sym].pc = "loaded"
    /\ files' = WriteFile(files, LockFile,
                          AddSaveResult(AddMark(cc.worker[sym].data, sym), sym,
                                        Result(sym, "BUY")))
    /\ cc' = [cc EXCEPT !.worker[sym].pc = "written"]
    /\ UNCHANGED concFrame

\* the worker leaves the with block and returns its result
LockRelease(sym) ==
    /\ cc.worker[sym].pc = "written"
    /\ cc' = [cc EXCEPT !.lock = None, !.worker[sym].pc = "returned"]
    /\ UNCHANGED <<files, concFrame>>

\* one batch in flight: every analysable symbol has a running worker
LockInit ==
    /\ files = <<>>
    /\ clock = 1
    /\ call = NoCall
    /\ ncalls = 0
    /\ mk = None
    /\ fn = None
    /\ ss = None
    /\ tr = None
    /\ oracle \in [Analysable -> Outcomes]
    /\ \E p \in SerialPeriods :
          cc = [period |-> p, scan_scope |-> "all_stocks", cache_date |-> DateStr(1),
                lock |-> None,
                worker |-> [sym \in Analysable |->
                               [pc |-> "running", data |-> NewData(DateStr(1), p)]]]

LockNext ==
    \E sym \in Analysable :
        \/ WorkerAnalysed(sym)
        \/ LockAcquire(sym)
        \/ LockedLoad(sym)
        \/ LockedWrite(sym)
        \/ LockRelease(sym)

SpecLock == LockInit /\ [][LockNext]_vars

-----------------------------------------------------------------------------
(* data_source_manager.py: the provider fallback of DataSourceManager.get_data.
   fn holds the manager (which sources are installed and enabled, the rate_limit
   tally of each) and the last call: the fetches it made, in order, and the
   source whose data it returned.  The success and fail tallies are written but
   read by nothing except get_stats and are left out. *)

\* lines 53-92: self.sources after the sort by priority
Sources == <<"akshare", "baostock", "yfinance">>

\* what a provider answers to one request; empty stands for every failure other
\* than a rate limit (no rows, an error code, an exception of another kind)
Responses == {"data", "empty", "rate_limit"}

\* preferred_source: None, or the name of a source
Preferred == {None, "akshare", "baostock", "yfinance"}

\* the mutant of RateLimitTripped: the tally never trips
RateLimitNeverTripped(n) == FALSE

\* stats['rate_limit'] > 3 (lines 272 and 422)
RateLimitTripped(n) == n > 3

\* lines 47-92: the manager when the packages in installed could be imported
NewManager(installed) ==
    [sources |-> SelectSeq(Sources, LAMBDA p : p \in installed),
     enabled |-> [p \in installed |-> TRUE],
     rate_limit |-> [p \in installed |-> 0]]

\* _fetch_akshare, _fetch_baostock, _fetch_yfinance: df says whether a non-empty
\* frame came back, raised whether Exception("RATE_LIMIT") was raised, queried
\* whether the provider was asked; bcode is a 6-digit code starting with 9 or 2
Fetch(name, rate_limit, bcode, resp) ==
    LET Quiet == [df |-> FALSE, raised |-> FALSE, queried |-> FALSE,
                  rate_limit |-> rate_limit]
        Asked == [df |-> resp = "data", raised |-> FALSE, queried |-> TRUE,
                  rate_limit |-> rate_limit]
    IN CASE name = "akshare" -> IF bcode THEN Quiet ELSE Asked
         [] name = "baostock" -> Asked
         [] name = "yfinance" ->
               IF bcode THEN Quiet
               ELSE IF RateLimitTripped(rate_limit["yfinance"]) THEN Quiet
               ELSE IF resp = "rate_limit"
               THEN [df |-> FALSE, raised |-> TRUE, queried |-> TRUE,
                     rate_limit |-> [rate_limit EXCEPT !["yfinance"] = @ + 1]]
               ELSE Asked

\* lines 406-415 and 453-466: one source tried; g is the call so far
TryOne(g, name, stage, bcode, resp) ==
    LET f == Fetch(name, g.m.rate_limit, bcode, resp[g.k]) IN
    [m |-> [g.m EXCEPT !.rate_limit = IF f.raised THEN [f.rate_limit EXCEPT ![name] = @ + 1]
                                      ELSE f.rate_limit],
     log |-> Append(g.log, [source |-> name, stage |-> stage, resp |-> resp[g.k],
                            queried |-> f.queried, df |-> f.df]),
     out |-> IF f.df THEN name ELSE None,
     k |-> g.k + 1]

\* the mutant of TryEach: the loop gives up at the first source that fails
TryEachNoFallback(g, srcs, bcode, resp) ==
    IF srcs = <<>> THEN g ELSE TryOne(g, Head(srcs), "loop", bcode, resp)

\* lines 441-466: the sources tried in order until one returns data
RECURSIVE TryEach(_, _, _, _)
TryEach(g, srcs, bcode, resp) ==
    IF srcs = <<>> \/ g.out # None THEN g
    ELSE TryEach(TryOne(g, Head(srcs), "loop", bcode, resp), Tail(srcs), bcode, resp)

\* lines 378-468: get_data
GetData(m, bcode, preferred_source, resp) ==
    LET g0 == [m |-> m, log |-> <<>>, out |-> None, k |-> 1]
        g1 == IF /\ preferred_source # None
                 /\ preferred_source \in DOMAIN m.enabled
                 /\ m.enabled[preferred_source]
              THEN TryOne(g0, preferred_source, "preferred", bcode, resp)
              ELSE g0
        available_sources == SelectSeq(g1.m.sources, LAMBDA p : g1.m.enabled[p])
        tripped == /\ "yfinance" \in DOMAIN g1.m.rate_limit
                   /\ RateLimitTripped(g1.m.rate_limit["yfinance"])
        m2 == IF tripped /\ g1.m.enabled["yfinance"]
              THEN [g1.m EXCEPT !.enabled["yfinance"] = FALSE] ELSE g1.m
    IN  IF g1.out # None THEN g1
        ELSE TryEach([g1 EXCEPT !.m = m2],
                     IF tripped
                     THEN SelectSeq(available_sources, LAMBDA p : p # "yfinance")
                     ELSE available_sources,
                     bcode, resp)

\* lines 474-481: reset_stats
ResetStats(m) ==
    [m EXCEPT !.rate_limit = [p \in DOMAIN m.rate_limit |-> 0],
              !.enabled = [p \in DOMAIN m.enabled |-> TRUE]]

\* manager.get_data(symbol, period, preferred_source=...); n tells one call from the next
CallGetData ==
    \E bcode \in BOOLEAN, preferred_source \in Preferred, resp \in [1..4 -> Responses] :
        LET g == GetData(fn.m, bcode, preferred_source, resp) IN
        /\ fn' = [op |-> "get_data", m |-> g.m, log |-> g.log, out |-> g.out,
                  n |-> 1 - fn.n]
        /\ UNCHANGED pureFrame

\* manager.reset_stats()
CallResetStats ==
    /\ fn' = [op |-> "reset_stats", m |-> ResetStats(fn.m), log |-> <<>>, out |-> None,
              n |-> 1 - fn.n]
    /\ UNCHANGED pureFrame

SourceInit ==
    /\ PureInit
    /\ \E installed \in SUBSET Range(Sources) :
          fn = [op |-> "init", m |-> NewManager(installed), log |-> <<>>, out |-> None,
                n |-> 0]

SourceNext == CallGetData \/ CallResetStats

SpecSource == SourceInit /\ [][SourceNext]_vars

-----------------------------------------------------------------------------
(* concurrent_scanner.py as a scan of the app would call it: the cache may hold
   what an earlier run of the same key wrote, and ss holds the two flags of
   st.session_state that the "stop scan" button sets while the call is under way *)

\* the cache directory after an earlier run of the key of call c marked the symbol
EarlierRun(c, sym) ==
    AddScannedStock(<<>>, DateStr(1), ConcScanType, sym, Result(sym, "BUY"),
                    c.cache_date, c.scan_scope, c.period)

\* appSimple.py lines 360-364: "stop scan" is pressed
StopRequest ==
    /\ ss.scanning
    /\ cc.pc = "batch"
    /\ ss' = [ss EXCEPT !.scanning = FALSE, !.stop_requested = TRUE]
    /\ UNCHANGED <<files, clock, call, ncalls, tr, cc, oracle, mk, fn>>

CancelInit ==
    /\ clock = 1
    /\ call = NoCall
    /\ ncalls = 0
    /\ mk = None
    /\ fn = None
    /\ tr = None
    /\ ss = [scanning |-> TRUE, stop_requested |-> FALSE]
    /\ oracle \in [Analysable -> Outcomes]
    /\ cc \in ConcCalls
    /\ \/ files = <<>>
       \/ \E sym \in Analysable : files = EarlierRun(cc, sym)

CancelNext == ConcNext \/ StopRequest

SpecCancel == CancelInit /\ [][CancelNext]_vars

-----------------------------------------------------------------------------
(* scan_cache.py when a write does not finish: open(cache_file, 'w') empties the
   file before json.dump writes the document, so a process that is stopped, or a
   dump that raises, between the two leaves a file that json.load cannot parse.
   fn remembers the symbols whose add_scanned_stock call ran to its end. *)

\* a cache file cut off in the middle of a write
Truncated == [partial |-> TRUE]

\* the key the interrupted scan writes to
CrashFile == CacheFilePath(DateStr(1), SerialScanType, DateStr(1), "all_stocks", "1mo")

\* json.load raises on the file
LoadFails(fs, cache_file) == Exists(fs, cache_file) /\ fs[cache_file] = Truncated

\* get_scanned_stocks, lines 83-98: the except branch returns set()
ReadScannedStocks(fs) ==
    IF LoadFails(fs, CrashFile) THEN {}
    ELSE GetScannedStocks(fs, DateStr(1), SerialScanType, DateStr(1), "all_stocks",
                          "1mo").value

\* add_scanned_stock, lines 153-190: the except branch of the read starts from an
\* empty document
WriteScannedStock(fs, symbol, result) ==
    AddScannedStock(IF LoadFails(fs, CrashFile) THEN Remove(fs, CrashFile) ELSE fs,
                    DateStr(1), SerialScanType, symbol, result, DateStr(1),
                    "all_stocks", "1mo")

\* add_scanned_stock runs to its end
CompletedAdd(sym) ==
    /\ \E result \in {NoResult, Result(sym, "BUY")} :
          files' = WriteScannedStock(files, sym, result)
    /\ fn' = [op |-> "add", symbol |-> sym, completed |-> fn.completed \cup {sym}]
    /\ UNCHANGED <<clock, call, ncalls, ss, tr, cc, oracle, mk>>

\* add_scanned_stock is interrupted before line 184 (the file is as it was) or
\* between open(cache_file, 'w') and the end of json.dump (the file is cut off);
\* the app starts again with what is on disk
InterruptedAdd(sym) ==
    /\ files' \in {files, WriteFile(files, CrashFile, Truncated)}
    /\ fn' = [op |-> "interrupted", symbol |-> sym, completed |-> fn.completed]
    /\ UNCHANGED <<clock, call, ncalls, ss, tr, cc, oracle, mk>>

CrashInit ==
    /\ PureInit
    /\ fn = [op |-> "none", symbol |-> None, completed |-> {}]

CrashNext == \E sym \in Analysable : CompletedAdd(sym) \/ InterruptedAdd(sym)

SpecCrash == CrashInit /\ [][CrashNext]_vars

-----------------------------------------------------------------------------
(* what the two scan modes store of a signal dict returned by generate_signals *)

\* signals.get('signal_type', 'HOLD'): the dict of a short series has no such key
SignalTypeOrHold(out) == IF out.signal_type = None THEN "HOLD" ELSE out.signal_type

\* appSimple.py lines 619-632: a HOLD signal_type is inferred from the 7-way signal
SerialStoredSignal(out, buy_score, sell_score) ==
    LET signal_type_value == SignalTypeOrHold(out) IN
    [signal |-> out.signal,
     signal_type |->
        IF signal_type_value = "HOLD"
        THEN IF out.signal \in {"STRONG_BUY", "BUY", "CAUTIOUS_BUY"} THEN "BUY"
             ELSE IF out.signal \in {"STRONG_SELL", "SELL", "CAUTIOUS_SELL"} THEN "SELL"
             ELSE "HOLD"
        ELSE signal_type_value]

\* concurrent_scanner.py lines 90-97: a HOLD signal_type is inferred from the scores
WorkerStoredSignal(out, buy_score, sell_score) ==
    LET signal_type_value == SignalTypeOrHold(out) IN
    [signal |-> out.signal,
     signal_type |->
        IF signal_type_value = "HOLD"
        THEN IF buy_score > sell_score THEN "BUY"
             ELSE IF sell_score > buy_score THEN "SELL"
             ELSE "HOLD"
        ELSE signal_type_value]

-----------------------------------------------------------------------------
(* Claims about the serial scan of appSimple.py, checked under SpecSerial *)

\* the serial scan's key in the state
SerialKeyFile == CacheFilePath(Today, SerialScanType, CacheDate(ss, Today), SerialScope,
                               ss.period)

\* the persisted scanned set of the serial scan's key
SerialMarked == IF Exists(files, SerialKeyFile)
                THEN Range(files[SerialKeyFile].scanned_stocks) ELSE {}

\* the symbols of the session's list that pass the skip rules
ListSymbols == {ss.stock_list[i].symbol : i \in {j \in 1..Len(ss.stock_list) :
                    ~ShouldSkipStock(ss.stock_list[j].symbol, ss.stock_list[j].name)}}

\* the scan has processed every symbol of its list
SerialComplete == ss.last.branch = "complete"

\* C1: once the serial scan has processed all the symbols of its list, every one
\* of them that passes the skip rules is in the persisted scanned set of the scan
\* key, whatever its outcome was (result, no signal, no data, exception).
C1_AllProcessedMarked ==
    SerialComplete => ListSymbols \subseteq SerialMarked

\* every symbol of the list produced a result or raised, and one raised
ResultOrRaise ==
    /\ \A s \in ListSymbols : oracle[s] \in {"result", "raise"}
    /\ \E s \in ListSymbols : oracle[s] = "raise"

C9_ResumeFromCache ==
    [][ (ss' # ss /\ ss'.last.branch = "analysed")
        => ss'.last.symbol \notin
              GetScannedStocks(files, Today, SerialScanType, ss'.last.cache_date,
                               SerialScope, ss'.last.period).value ]_vars

\* an analysis in a session that replaced a lost one: the key holds more scanned
\* symbols than this session's index has passed
C9_Witness ==
    /\ ss.last.branch = "analysed"
    /\ ss.lost > 0
    /\ Cardinality(SerialMarked) > ss.current_scan_index

-----------------------------------------------------------------------------
(* Claims about the concurrent scan, checked under SpecConc *)

\* the symbols dispatched to a worker by the call
Dispatched == {cc.valid_stocks[i].symbol : i \in 1..Len(cc.valid_stocks)}

\* the persisted scanned set of the concurrent scan's key
ConcMarked ==
    GetScannedStocks(files, Today, ConcScanType, cc.cache_date, cc.scan_scope,
                     cc.period).value

\* C2: when analyze_stocks_concurrent returns, every symbol it dispatched to a
\* worker is in the scanned set of the key, whether the worker produced a
\* result, found no signal, got no data or raised.
C2_AllDispatchedMarked ==
    cc.pc = "returned" => Dispatched \subseteq ConcMarked

-----------------------------------------------------------------------------
(* Claims about the trend scan's use of the other scope, checked under SpecTrend *)

\* the cache file of a trend scan scope today
TrendFile(sc) == CacheFilePath(Today, TrendScanType, None, sc, None)

\* the result the entry of scope sc holds for a symbol (NoResult if none)
TrendStored(fs, sc, symbol) ==
    IF Exists(fs, TrendFile(sc)) THEN DictGet(fs[TrendFile(sc)].results, symbol)
    ELSE NoResult

\* this step is a scan tick of the session of scope b on some symbol
TrendTick(b) ==
    /\ tr'[b] # tr[b]
    /\ tr'[b].last.branch \in {"reuse", "skip_scanned", "analysed"}

\* C5: when a scan of scope B ticks on a symbol X for which the entry of the
\* other scope A holds a result, the tick does not analyse X and afterwards the
\* entry of B holds A's result for X; for B = strong_sectors and B = all_stocks.
C5_CrossScopeReuse ==
    [][ \A b \in TrendScopes :
          (TrendTick(b) /\ TrendStored(files, OtherScope(b), tr'[b].last.symbol) # NoResult)
          => /\ tr'[b].last.branch # "analysed"
             /\ TrendStored(files', b, tr'[b].last.symbol)
                   = TrendStored(files, OtherScope(b), tr'[b].last.symbol) ]_vars

-----------------------------------------------------------------------------
(* Claims about the ScanCache API, checked under SpecCache *)

IsAdd(c) == c.op = "add_scanned_stock"

IsCall(c) == c.op # "none"

SameKey(c1, c2) ==
    /\ c1.scan_type = c2.scan_type
    /\ c1.date = c2.date
    /\ c1.scan_scope = c2.scan_scope
    /\ c1.period = c2.period

\* number of positions of seq that hold x
Count(seq, x) == Cardinality({i \in 1..Len(seq) : seq[i] = x})

\* the stored date or period of the document does not equal the call's
KeyMismatch(c) == c.data.date # c.date \/ c.data.period # c.period

\* the mismatch add_scanned_stock reacts to: a null period in the call matches anything
KeyMismatchNonNull(c) ==
    c.data.date # c.date \/ (c.period # None /\ c.data.period # c.period)

EntryIsOnly(c) ==
    /\ files[c.cache_file].scanned_stocks = <<c.symbol>>
    /\ DictKeys(files[c.cache_file].results) \subseteq {c.symbol}

\* C3: add_scanned_stock called twice in a row with the same key and symbol (any
\* results): the entry then lists the symbol exactly once and the scanned set is
\* what it was after the first call.
C3_IdempotentMarking ==
    [][ (IsAdd(call) /\ IsAdd(call') /\ ncalls' = ncalls + 1
            /\ SameKey(call, call') /\ call.symbol = call'.symbol)
        => /\ Count(files'[call'.cache_file].scanned_stocks, call'.symbol) = 1
           /\ Range(files'[call'.cache_file].scanned_stocks)
                 = Range(files[call.cache_file].scanned_stocks) ]_vars

\* a second add for a key whose document already lists the symbol, with a result
C3_Witness ==
    /\ IsAdd(call)
    /\ ncalls = 2
    /\ call.symbol \in Range(call.data.scanned_stocks)
    /\ call.data.date = call.date
    /\ call.data.period = call.period
    /\ call.result # NoResult

\* C4: get_scanned_stocks for date D' returns only symbols of the document of that
\* key whose stored date is D', and the empty set when there is no such document:
\* symbols recorded under another date D are never part of the answer.
C4_StaleKeyInvalidation ==
    call.op = "get_scanned_stocks" =>
        /\ \A s \in call.value :
              /\ Exists(files, call.cache_file)
              /\ files[call.cache_file].date = call.date
              /\ s \in Range(files[call.cache_file].scanned_stocks)
        /\ (\A p \in DOMAIN files : files[p].date # call.date) => call.value = {}

\* the same scan type and scope has symbols recorded for another date, the answer is empty
C4_Witness ==
    /\ call.op = "get_scanned_stocks"
    /\ call.value = {}
    /\ \E p \in DOMAIN files :
          /\ files[p].date # call.date
          /\ files[p].scanned_stocks # <<>>
          /\ Len(p) = Len(call.cache_file)
          /\ \A i \in 1..(Len(p) - 1) : p[i] = call.cache_file[i]

\* C6 as stated: a stored (date, period) that differs from the call's in either
\* component makes add_scanned_stock start the entry over.
C6_ResetOnAnyMismatch ==
    (IsAdd(call) /\ KeyMismatch(call)) => EntryIsOnly(call)

\* C6 amended: the entry is started over when the stored date differs, or the call's
\* period is non-null and differs from the stored period.
C6_ResetOnMismatch ==
    (IsAdd(call) /\ KeyMismatchNonNull(call)) => EntryIsOnly(call)

\* an add with a non-null period found a non-empty document of another period
C6_Witness ==
    /\ IsAdd(call)
    /\ call.period # None
    /\ call.data.period # call.period
    /\ call.data.scanned_stocks # <<>>
    /\ call.symbol \notin Range(call.data.scanned_stocks)

\* C7: two calls address the same cache file exactly when their keys agree; the key
\* of signal_analysis is (date, scope, period), that of trend_start_signal is
\* (date, scope), whatever the period.
C7_KeyUniqueness ==
    [][ (IsCall(call) /\ IsCall(call') /\ ncalls' = ncalls + 1
            /\ call.scan_type = call'.scan_type)
        => /\ call'.scan_type = "signal_analysis"
                => ((call.cache_file = call'.cache_file) <=> SameKey(call, call'))
           /\ call'.scan_type = "trend_start_signal"
                => ((call.cache_file = call'.cache_file)
                       <=> (call.date = call'.date /\ call.scan_scope = call'.scan_scope))
       ]_vars

\* a trend_start_signal call that found the document written under another period
C7_Witness ==
    /\ ncalls = 2
    /\ call.scan_type = "trend_start_signal"
    /\ IsAdd(call)
    /\ call.data.scanned_stocks # <<>>
    /\ call.data.period # call.period
    /\ call.data.date = call.date

\* today's document of the key the call named, if it exists
HasDoc(c) == Exists(files, c.cache_file)

\* C10 as stated: get_cached_results returns the stored results of today's entry, and
\* the empty list when the entry is missing, not of today, or of another period.
C10_TodayOnlyRead ==
    call.op = "get_cached_results" =>
        IF HasDoc(call) /\ files[call.cache_file].date = call.date
              /\ files[call.cache_file].period = call.period
        THEN call.value = DictValues(files[call.cache_file].results)
        ELSE call.value = <<>>

\* C10 amended: ... or its stored period differs from a non-null requested period.
C10_TodayOnlyReadNonNull ==
    call.op = "get_cached_results" =>
        IF HasDoc(call) /\ files[call.cache_file].date = call.date
              /\ ~(call.period # None /\ files[call.cache_file].period # call.period)
        THEN call.value = DictValues(files[call.cache_file].results)
        ELSE call.value = <<>>

\* results are stored for the key, but under another period than the one requested
C10_Witness ==
    /\ call.op = "get_cached_results"
    /\ HasDoc(call)
    /\ files[call.cache_file].results # <<>>
    /\ call.period # None
    /\ files[call.cache_file].period # call.period
    /\ call.value = <<>>

\* the keys a cache call can name
Keys == [scan_type : ScanTypes, date : Dates, scan_scope : Scopes, period : Periods]

\* the key a call named
KeyOf(c) == [scan_type |-> c.scan_type, date |-> c.date, scan_scope |-> c.scan_scope,
             period |-> c.period]

\* what the cache holds for a key: the document of its file, if there is one
EntryOf(fs, k) ==
    LET cache_file == CacheFilePath(k.date, k.scan_type, k.date, k.scan_scope, k.period)
    IN IF Exists(fs, cache_file) THEN <<fs[cache_file]>> ELSE <<>>

\* this step is a call of clear_today_cache
IsClearStep == call'.op = "clear_today_cache" /\ ncalls' = ncalls + 1

\* after the call both reads of the cleared key are empty
ClearedKeyEmpty ==
    /\ GetScannedStocks(files', Today, call'.scan_type, None, call'.scan_scope,
                        call'.period).value = {}
    /\ GetCachedResults(files', Today, call'.scan_type, call'.scan_scope,
                        call'.period) = <<>>

\* two keys of trend_start_signal that differ in nothing but the period
SharesTrendEntry(k1, k2) ==
    /\ k1.scan_type = "trend_start_signal" /\ k2.scan_type = "trend_start_signal"
    /\ k1.date = k2.date /\ k1.scan_scope = k2.scan_scope

\* C11 as stated: clear_today_cache empties the reads of its key and leaves the
\* entry of every other key (other scan type, date, scope or period) as it was.
C11_ClearExactKey ==
    [][ IsClearStep =>
          /\ ClearedKeyEmpty
          /\ \A k \in Keys : k # KeyOf(call') => EntryOf(files', k) = EntryOf(files, k)
      ]_vars

\* C11 amended: clear_today_cache empties the reads of its key and leaves the
\* entry of every other key as it was, except that for trend_start_signal the
\* keys that differ from the cleared one only in period share its entry.
C11_ClearExactEntry ==
    [][ IsClearStep =>
          /\ ClearedKeyEmpty
          /\ \A k \in Keys :
                (k # KeyOf(call') /\ ~SharesTrendEntry(k, KeyOf(call')))
                => EntryOf(files', k) = EntryOf(files, k)
      ]_vars

\* a clear that deleted a non-empty entry while another entry stayed in the cache
C11_Witness ==
    /\ call.op = "clear_today_cache"
    /\ call.data.scanned_stocks # <<>>
    /\ ~Exists(files, call.cache_file)
    /\ files # <<>>

-----------------------------------------------------------------------------
(* Claims about the market-environment cache, checked under SpecMarket *)

\* today's file holds a value that was analysed today
SavedToday == /\ DateStr(clock) \in DOMAIN mk.file
              /\ mk.file[DateStr(clock)].timestamp = DashStr(clock)

\* C12: once today's market environment is saved, a run that reads the cache
\* gets the persisted value and goes on without analysing; an analysis runs
\* only while no value of today is saved, that is before the first save of the
\* day or after clear_market_environment_cache.
C12_OncePerDay ==
    [][ /\ (mk.pc = "idle" /\ mk'.pc # "idle" /\ SavedToday)
           => /\ mk'.market_env = <<mk.file[DateStr(clock)]>>
              /\ mk'.pc = "shown"
              /\ mk'.analyses = mk.analyses
              /\ mk'.file = mk.file
        /\ (mk'.analyses > mk.analyses) => ~SavedToday
      ]_vars

\* a run reads the value another run analysed and saved earlier the same day
C12_Witness ==
    /\ mk.pc = "shown"
    /\ mk.analyses >= 1
    /\ SavedToday
    /\ mk.market_env = <<mk.file[DateStr(clock)]>>

-----------------------------------------------------------------------------
(* Claims about generate_signals, checked under SpecScorer *)

\* generate_signals was called on a series long enough to be scored
Scored == fn.op = "generate_signals" /\ fn.bars >= MinBars

NetScore == fn.buy_score - fn.sell_score
TotalScore == fn.buy_score + fn.sell_score

\* the documented class of a net score, as a table of intervals
DocumentedSignal(net_score) ==
    CASE net_score \in 8..(2 * MaxScore + 2)    -> "STRONG_BUY"
      [] net_score \in 4..7                     -> "BUY"
      [] net_score \in 2..3                     -> "CAUTIOUS_BUY"
      [] net_score \in -1..1                    -> "HOLD"
      [] net_score \in -3..-2                   -> "CAUTIOUS_SELL"
      [] net_score \in -7..-4                   -> "SELL"
      [] net_score \in (-2 * MaxScore - 2)..-8  -> "STRONG_SELL"

\* C13: with total_score > 0 the signal is the documented class of net_score:
\* >= 8 STRONG_BUY, 4..7 BUY, 2..3 CAUTIOUS_BUY, -1..1 HOLD, -3..-2 CAUTIOUS_SELL,
\* -7..-4 SELL, <= -8 STRONG_SELL, with every boundary on the documented side.
C13_ThresholdBoundaries ==
    (Scored /\ TotalScore > 0) =>
        /\ fn.out.outcome = "return"
        /\ fn.out.signal = DocumentedSignal(NetScore)

\* a call whose net score is exactly a boundary value with buy and sell points
C13_Witness ==
    /\ Scored
    /\ NetScore \in {8, 4, 2, -2, -4, -8}
    /\ fn.buy_score > 0 /\ fn.sell_score > 0
    /\ fn.out.outcome = "return"

\* C14: when buy_score + sell_score is 0, generate_signals returns normally with
\* signal HOLD and strength 0.
C14_ZeroTotalHold ==
    (Scored /\ TotalScore = 0) =>
        /\ fn.out.outcome = "return"
        /\ fn.out.signal = "HOLD"
        /\ fn.out.strength = 0

\* generate_signals was called on a series too short to be scored
TooShort == fn.op = "generate_signals" /\ fn.bars < MinBars

-----------------------------------------------------------------------------
(* Claims about check_trend_start_signal, checked under SpecDetector *)

Checked == fn.op = "check_trend_start_signal"

\* the four gates as the specification words them
TrendGate == fn.d.Close > fn.d.MA10 /\ fn.d.MA5 > fn.d.MA10 /\ fn.d.MA10 > fn.d.MA10_3
VolumeGateAsStated ==
    fn.d.Volume_MA # NaN /\ 10 * fn.d.Volume >= 18 * fn.d.Volume_MA[1]
VolumeGate == VolumeGateAsStated /\ fn.d.Volume_MA[1] > 0
CandleGate ==
    /\ 1000 * (fn.d.Close - fn.d.prev_Close) > 25 * fn.d.prev_Close
    /\ 1000 * fn.d.Close >= 995 * fn.d.highest_10d
ConfluenceGate ==
    \/ fn.d.RSI \in {<<r>> : r \in 50..70}
    \/ /\ fn.d.MACD > 0 /\ fn.d.MACD > fn.d.MACD_Signal
       /\ (IF fn.d.prev_MACD = NaN THEN 0 ELSE fn.d.prev_MACD[1]) <= fn.d.prev_MACD_Signal

\* C16 as stated: passed iff the four gates hold, the volume gate being
\* volume >= 1.8 x Volume_MA20; on pass strength is 85 and stop_loss is the
\* final bar's low.
C16_FourGatesLowStop ==
    Checked =>
        /\ fn.out.passed <=> (TrendGate /\ VolumeGateAsStated /\ CandleGate /\ ConfluenceGate)
        /\ fn.out.passed => (fn.out.signal_strength = 85 /\ fn.out.stop_loss = fn.d.Low)

\* C16: passed iff the trend gate, the volume gate (Volume_MA20 > 0 and volume
\* >= 1.8 x Volume_MA20), the candle/new-high gate and the confluence gate all
\* hold; on pass strength is 85 and stop_loss is the final bar's low rounded to
\* two decimals.
C16_FourGates ==
    Checked =>
        /\ fn.out.passed <=> (TrendGate /\ VolumeGate /\ CandleGate /\ ConfluenceGate)
        /\ fn.out.passed => (fn.out.signal_strength = 85
                             /\ fn.out.stop_loss = Round2(fn.d.Low))

\* a series that passes on the MACD cross alone, at exactly 1.8 times the volume
\* average, with a low that is not a whole cent
C16_Witness ==
    /\ Checked
    /\ fn.out.passed
    /\ fn.d.RSI = <<71>>
    /\ fn.d.Volume = 1800
    /\ fn.d.Low = 9904

-----------------------------------------------------------------------------
(* Claims about the sector ranking, checked under SpecSector *)

Ranked == fn.op = "get_sector_strength_detailed"

\* names of the sectors in strong_sectors
StrongNames == {fn.out[i].name : i \in 1..Len(fn.out)}

Bearish(h) == h.ma60 < h.ma120 /\ h.price < h.ma60

\* C17: a sector with at least 60 bars in bearish alignment is never in
\* strong_sectors, whatever its points; a sector with fewer than 60 bars (and
\* enough rows to be scored) is not excluded, bearish or not.
C17_BearishExcluded ==
    Ranked =>
        \A i \in 1..Len(fn.hists) :
            /\ (fn.hists[i].bars >= 60 /\ Bearish(fn.hists[i]))
                  => SectorNames[i] \notin StrongNames
            /\ (fn.hists[i].bars \in 20..59) => SectorNames[i] \in StrongNames

\* a bearish 60-bar sector with the most points is left out while a 59-bar
\* bearish one and a weaker healthy one are ranked
C17_Witness ==
    /\ Ranked
    /\ Len(fn.hists) = 3
    /\ fn.hists[1].bars = 60 /\ Bearish(fn.hists[1]) /\ fn.hists[1].points = 300
    /\ fn.hists[2].bars = 59 /\ Bearish(fn.hists[2])
    /\ fn.hists[3].bars = 60 /\ ~Bearish(fn.hists[3]) /\ fn.hists[3].points = 0
    /\ StrongNames = {"S2", "S3"}

\* C18: for K scored sectors strong_sectors holds the floor(0.3 * K) highest
\* scores, in descending order.
C18_TopThirtyPercent ==
    Ranked =>
        LET K == Len(ScoredSectors(fn.hists))
        IN  /\ Len(fn.out) = (3 * K) \div 10
            /\ \A i \in 1..Len(fn.out) - 1 : fn.out[i].score >= fn.out[i + 1].score
            /\ \A i \in 1..Len(fn.out) : \A j \in 1..K :
                  ScoredSectors(fn.hists)[j].name \notin StrongNames
                     => ScoredSectors(fn.hists)[j].score <= fn.out[i].score

-----------------------------------------------------------------------------
(* Claims about failures in the two scan modes, checked under SpecModes and
   SpecConcFair *)

\* an exception, or no data at all, while one symbol is processed
Failures == {"raise", "no_data"}

\* this step is a serial scan tick that analysed a failing symbol
SerialFailTick ==
    /\ fn = "serial"
    /\ ss' # ss
    /\ ss'.last.branch = "analysed"
    /\ oracle[ss'.last.symbol] \in Failures

\* this step is the script run that follows such a tick, no widget touched
SerialAfterFail ==
    /\ fn = "serial"
    /\ ss' # ss
    /\ ss'.period = ss.period
    /\ ss.last.branch = "analysed"
    /\ oracle[ss.last.symbol] \in Failures
    /\ ss'.last.branch \in {"idle", "stopped", "complete", "analysed", "skip_scanned",
                            "skip_st", "skip_delisted", "skip_invalid"}

\* this step collects the future of a failing symbol
ConcFailCollect(sym) ==
    /\ fn = "concurrent"
    /\ cc.pc = "batch"
    /\ sym \in DOMAIN cc.future
    /\ oracle[sym] \in Failures
    /\ ~cc.future[sym].collected
    /\ cc'.pc = "batch"
    /\ sym \in DOMAIN cc'.future
    /\ cc'.future[sym].collected

\* C19: a symbol that raises or yields no data does not end the run. Serial: the
\* tick leaves the scan running with the index past the symbol, and the next
\* script run takes the following row or finds the list finished. Concurrent:
\* collecting the failed future only adds the symbol to failed_stocks, the other
\* futures and the collected results are untouched, and when the call returns
\* every dispatched symbol has been collected.
C19_FailureDoesNotAbort ==
    [][ /\ SerialFailTick =>
            /\ ss'.scanning
            /\ ss'.current_scan_index > 0
            /\ ss'.stock_list[ss'.current_scan_index].symbol = ss'.last.symbol
        /\ SerialAfterFail => ss'.last.branch \notin {"idle", "stopped"}
        /\ \A sym \in Analysable : ConcFailCollect(sym) =>
            /\ sym \in Range(cc'.failed_stocks)
            /\ cc'.batch_results = cc.batch_results
            /\ cc'.results = cc.results
            /\ \A t \in DOMAIN cc.future \ {sym} : cc'.future[t] = cc.future[t]
        /\ (fn = "concurrent" /\ cc.pc = "batch" /\ cc'.pc = "returned") =>
            Dispatched = {cc'.results[i].symbol : i \in 1..Len(cc'.results)}
                         \cup Range(cc'.failed_stocks)
      ]_vars

\* a serial scan that finished although its first symbol raised and another
\* gave no data, with the result of a later symbol kept
C19_Witness ==
    /\ fn = "serial"
    /\ ss.last.branch = "complete"
    /\ oracle["600001.SS"] = "raise"
    /\ oracle["000002.SZ"] = "no_data"
    /\ oracle["300003.SZ"] = "result"
    /\ ss.current_scan_index = Len(ss.stock_list)
    /\ \E i \in 1..Len(ss.scan_results) : ss.scan_results[i].symbol = "300003.SZ"

\* C20: a call of analyze_stocks_concurrent returns even if a worker never does,
\* and the symbol of such a worker is then in failed_stocks.
C20_TimeoutProceeds ==
    <>(/\ cc.pc = "returned"
       /\ \A sym \in Dispatched : oracle[sym] = "hang" => sym \in Range(cc.failed_stocks))

-----------------------------------------------------------------------------
(* Claims about the workers' saves, checked under SpecLock *)

\* the entry of the run's key as it is on disk
LockEntry == AddLoad(files, LockFile, cc.cache_date, cc.period)

\* the workers inside add_scanned_stock
InsideSave == {sym \in Analysable : cc.worker[sym].pc \in {"locked", "loaded", "written"}}

\* C21: the workers' read-modify-writes of the entry never overlap, and when
\* all workers of the batch have returned every symbol that produced a result
\* is in scanned_stocks and in results of the persisted entry.
C21_NoLostUpdate ==
    /\ Cardinality(InsideSave) <= 1
    /\ (\A sym \in Analysable : cc.worker[sym].pc = "returned") =>
          \A sym \in Analysable : oracle[sym] = "result" =>
              /\ sym \in Range(LockEntry.scanned_stocks)
              /\ DictGet(LockEntry.results, sym) = Result(sym, "BUY")

\* three workers with a result have all returned and the entry holds the three
C21_Witness ==
    /\ \A sym \in Analysable : cc.worker[sym].pc = "returned" /\ oracle[sym] = "result"
    /\ Len(LockEntry.scanned_stocks) = 3

-----------------------------------------------------------------------------
(* Claims about stopping the serial scan, checked under SpecSerial *)

\* this step is a scan tick that analysed a symbol
SerialTick == ss' # ss /\ ss'.last.branch = "analysed"

\* the scanned set of the tick's key after the step
MarkedAfterTick ==
    GetScannedStocks(files', Today, SerialScanType, ss'.last.cache_date, SerialScope,
                     ss'.last.period).value

-----------------------------------------------------------------------------
(* Claims about the skip rules of the trend scan, checked under SpecTrend *)

TrendTickBranches == {"skip_st", "skip_invalid", "reuse", "skip_scanned", "analysed"}

\* the script run of scope sc handled one symbol of its list
SkipTick(sc) == tr'[sc] # tr[sc] /\ tr'[sc].last.branch \in TrendTickBranches

\* the name the stock list gives the symbol
NameOfSymbol(symbol) == (CHOOSE row \in Range(StockList) : row.symbol = symbol).name

\* the symbol is in the scope's scanned set, or the scope is all_stocks and the
\* symbol is in the scanned set of strong_sectors
ScannedForScope(sc, symbol) ==
    \/ symbol \in TrendScanned(files, Today, sc)
    \/ sc = "all_stocks" /\ symbol \in TrendScanned(files, Today, "strong_sectors")

\* all_stocks holds a result for the symbol that a strong_sectors tick can take
CrossScopeHit(sc, symbol) ==
    /\ sc = "strong_sectors"
    /\ symbol \in TrendScanned(files, Today, "all_stocks")
    /\ GetCachedResultsFromOtherScope(files, Today, TrendScanType, symbol, None,
                                      "all_stocks") # NoResult

C32_UnionOfScopesSkipped ==
    [][\A sc \in TrendScopes :
          (SkipTick(sc) /\ tr'[sc].last.branch = "analysed") =>
              tr'[sc].last.symbol \notin
                  TrendScanned(files, Today, sc) \cup TrendScanned(files, Today, OtherScope(sc))
      ]_vars

-----------------------------------------------------------------------------
(* Claims about DataSourceManager, checked under SpecSource *)

\* the fetches of the priority loop of the last call
LoopLog == SelectSeq(fn.log, LAMBDA e : e.stage = "loop")

\* the sources the loop of the last call could use, in priority order
EnabledSources == SelectSeq(fn.m.sources, LAMBDA p : fn.m.enabled[p])

GetDataStep == fn'.n # fn.n /\ fn'.op = "get_data"

\* yfinance is installed and its rate_limit tally is above 3
YfinanceTripped ==
    "yfinance" \in DOMAIN fn.m.rate_limit /\ fn.m.rate_limit["yfinance"] > 3

-----------------------------------------------------------------------------
(* Claims about what a finished concurrent run leaves, checked under SpecConc *)

\* analyze_stocks_concurrent has returned after dispatching at least one symbol, and
\* every symbol it dispatched had no data
AllUnavailableRun ==
    /\ cc.pc = "returned"
    /\ Dispatched # {}
    /\ \A sym \in Dispatched : oracle[sym] = "no_data"

\* what a call leaves when it returns at line 187 without analysing anything: the
\* empty list as its value and the cache as it was
NothingAnalysed == cc.results = <<>> /\ files = <<>>

\* C26: a run in which every symbol is unavailable returns normally with zero
\* results and leaves counters that tell it from a run that ended before analysing
\* its symbols: its value and the cache are not those of a call that analysed nothing
C26_UnavailableRunDistinguishable ==
    AllUnavailableRun => (cc.results = <<>> /\ ~NothingAnalysed)

-----------------------------------------------------------------------------
(* Claims about the signal strength, checked under SpecScorer *)

\* the tier of a strength by the documented thresholds
DocumentedLevel(strength) ==
    CASE strength \in 80..100 -> "L6"
      [] strength \in 70..79  -> "L5"
      [] strength \in 60..69  -> "L4"
      [] strength \in 50..59  -> "L3"
      [] strength \in 40..49  -> "L2"
      [] strength \in 0..39   -> "L1"

\* 9 * total * (0.6 * (score / total * 100) + 0.4 * min(score / 18 * 100, 100))
WeightedTimes9Total(score, total) == 540 * score + Min(20 * score * total, 360 * total)

\* C27: for a BUY (SELL) classification strength is an integer of 0..100, the
\* truncation of 0.6*(score/total*100) + 0.4*min(score/18*100, 100) capped at 100
\* with score the buy (sell) score, and strength_level is the tier of the
\* thresholds 80, 70, 60, 50, 40
C27_StrengthFormula ==
    (Scored /\ fn.out.outcome = "return" /\ fn.out.signal_type \in {"BUY", "SELL"}) =>
        LET score == IF fn.out.signal_type = "BUY" THEN fn.buy_score ELSE fn.sell_score
            w == WeightedTimes9Total(score, TotalScore)
            s == fn.out.strength
        IN  /\ s \in 0..100
            /\ s * 9 * TotalScore <= w
            /\ s = 100 \/ w < (s + 1) * 9 * TotalScore
            /\ fn.out.strength_level = DocumentedLevel(s)

\* a buy score of 10 against a sell score of 8 gives 55.55..., reported as 55 in the
\* tier of 50..59
C27_Witness ==
    /\ Scored
    /\ fn.buy_score = 10 /\ fn.sell_score = 8
    /\ fn.out.signal = "CAUTIOUS_BUY"
    /\ fn.out.strength = 55
    /\ fn.out.strength_level = "L3"

-----------------------------------------------------------------------------
(* Claims about a concurrent run called by a scan of the app, checked under
   SpecCancel *)

\* this step submits the tasks of a batch to an executor
BatchDispatched ==
    /\ cc'.pc = "batch"
    /\ cc.pc = "idle" \/ cc'.batch_idx > cc.batch_idx

\* C28: after a stop request analyze_stocks_concurrent dispatches no new batch; the
\* workers of the batch under way may still finish
C28_NoBatchAfterStop ==
    [][ss.stop_requested => ~BatchDispatched]_vars

\* the executor starts the worker of the symbol, which fetches its data
WorkerStarted(sym) ==
    /\ sym \in DOMAIN cc'.future
    /\ cc'.future[sym].state = "running"
    /\ ~(sym \in DOMAIN cc.future /\ cc.future[sym].state = "running")

\* C29: a symbol that is already in the scanned set of the run's key (scan type,
\* cache_date, scope, period) is not dispatched to a worker and its data is not
\* fetched again
C29_ScannedNotDispatched ==
    [][\A sym \in Analysable : WorkerStarted(sym) => sym \notin ConcMarked]_vars

-----------------------------------------------------------------------------
(* Claims about an interrupted cache write, checked under SpecCrash *)

\* C30: when add_scanned_stock is interrupted, or its write fails, the symbols
\* recorded by the calls that completed before are still returned by
\* get_scanned_stocks; at most the symbol being written is lost
C30_EarlierSymbolsKept == fn.completed \subseteq ReadScannedStocks(files)

-----------------------------------------------------------------------------
(* Claims about the cross-scope lookup of the cache, checked under SpecCache *)

\* the files add_scanned_stock writes for the scan type, scope and date of the
\* lookup made last, one per period argument
StoredUnderScope ==
    {CacheFilePath(Today, call.scan_type, call.date, call.scan_scope, p) : p \in Periods}

\* C31: a non-null result that add_scanned_stock stored under scope A for symbol X,
\* for any scan type, period and date, is what
\* get_cached_results_from_other_scope(scan_type, X, date, other_scope=A) returns
C31_CrossScopeFindsStored ==
    (call.op = "get_cached_results_from_other_scope" /\ call.scan_scope # None) =>
        \A f \in StoredUnderScope :
            ( /\ Exists(files, f)
              /\ files[f].date = call.date
              /\ DictGet(files[f].results, call.symbol) # NoResult )
            => call.value = DictGet(files[f].results, call.symbol)

-----------------------------------------------------------------------------
(* Claims about the batches of a concurrent run, checked under SpecConc *)

\* the symbols at positions from..to of valid_stocks
ValidSymbols(c, from, to) ==
    {c.valid_stocks[i].symbol : i \in {j \in 1..Len(c.valid_stocks) : from <= j /\ j <= to}}

\* the workers that are running
Running(c) == {sym \in DOMAIN c.future : c.future[sym].state = "running"}

\* the symbols whose future the main thread has taken from as_completed
Finished(c) ==
    {c.results[i].symbol : i \in 1..Len(c.results)}
        \cup {c.batch_results[i].symbol : i \in 1..Len(c.batch_results)}
        \cup Range(c.failed_stocks)

\* C33: the filtered list is cut into consecutive batches of batch_size symbols, the
\* last one possibly shorter; no worker of batch k+1 starts before every worker of
\* batch k has finished; never more than max_workers workers run at once
C33_Batching ==
    [][ /\ cc'.pc = "batch" =>
              /\ DOMAIN cc'.future = ValidSymbols(cc', (cc'.batch_idx - 1) * BatchSize + 1,
                                                  cc'.batch_idx * BatchSize)
              /\ DOMAIN cc'.future # {}
              /\ Cardinality(Running(cc')) <= cc'.max_workers
        /\ \A sym \in Analysable : WorkerStarted(sym) =>
              /\ sym \in ValidSymbols(cc, (cc.batch_idx - 1) * BatchSize + 1,
                                      cc.batch_idx * BatchSize)
              /\ ValidSymbols(cc, 1, (cc.batch_idx - 1) * BatchSize) \subseteq Finished(cc)
              /\ Running(cc) \cap ValidSymbols(cc, 1, (cc.batch_idx - 1) * BatchSize) = {}
      ]_vars

\* the second batch, the shorter one, is under way with its worker running, after a
\* first batch of two tasks that ran on a single thread
C33_Witness ==
    /\ cc.pc = "batch"
    /\ cc.batch_idx = 2
    /\ cc.max_workers = 1
    /\ Len(cc.valid_stocks) = 3
    /\ Running(cc) = {"300003.SZ"}

-----------------------------------------------------------------------------
(* Claims about the order of the detector's gates, checked under SpecDetector *)

\* the first gate that fails, in the order trend, volume, candle, indicator
FirstFailingGate ==
    IF ~TrendGate THEN "trend"
    ELSE IF ~VolumeGate THEN "volume"
    ELSE IF ~CandleGate THEN "candle"
    ELSE IF ~ConfluenceGate THEN "indicator"
    ELSE "ok"

\* C34: on a series of at least 20 rows of which at least one gate fails,
\* check_trend_start_signal returns passed = false with the reason of the first
\* failing gate in the order trend, volume, candle/new high, indicator confluence,
\* whatever the later gates would have said
C34_FirstFailingGate ==
    (Checked /\ fn.d.bars >= MinTrendBars /\ FirstFailingGate # "ok") =>
        /\ ~fn.out.passed
        /\ fn.out.reason = FirstFailingGate
        /\ fn.out.stop_loss = None /\ fn.out.signal_strength = None

\* the trend gate holds, the volume, candle and indicator gates all fail, and the
\* reason given is the volume gate's
C34_Witness ==
    /\ Checked
    /\ TrendGate /\ ~VolumeGate /\ ~CandleGate /\ ~ConfluenceGate
    /\ fn.out.reason = "volume"

-----------------------------------------------------------------------------
(* Claims about the stored cache entries, checked under SpecCache *)

\* C35: in every stored entry each key of results is a member of scanned_stocks, and
\* scanned_stocks holds no symbol twice
C35_EntryWellFormed ==
    \A f \in DOMAIN files :
        /\ DictKeys(files[f].results) \subseteq Range(files[f].scanned_stocks)
        /\ Cardinality(Range(files[f].scanned_stocks)) = Len(files[f].scanned_stocks)

\* the second add of a symbol, with a result, to an entry that already listed it
\* without one
C35_Witness ==
    /\ call.op = "add_scanned_stock"
    /\ call.result # NoResult
    /\ call.data.scanned_stocks = <<call.symbol>>
    /\ call.data.results = <<>>
    /\ Exists(files, call.cache_file)
    /\ files[call.cache_file].scanned_stocks = <<call.symbol>>
    /\ DictKeys(files[call.cache_file].results) = {call.symbol}

\* what get_scanned_stocks returns for the key of call c on directory fs
ReaderSees(fs, c) ==
    GetScannedStocks(fs, Today, c.scan_type, c.date, c.scan_scope, c.period).value

\* C36: if get_scanned_stocks(key) returns S, then after add_scanned_stock(key, s, ...)
\* get_scanned_stocks(key) returns a superset of S that contains s
C36_WriteKeepsWhatReaderSaw ==
    [][ (ncalls' = ncalls + 1 /\ IsAdd(call')) =>
            /\ ReaderSees(files, call') \subseteq ReaderSees(files', call')
            /\ call'.symbol \in ReaderSees(files', call') ]_vars

-----------------------------------------------------------------------------
(* Claims about resuming a stopped serial scan, checked under SpecSerial *)

\* the branches of the scan block that work on the list
ScanBranches == {"analysed", "skip_scanned", "skip_st", "skip_delisted", "skip_invalid",
                 "complete"}

\* this step is the script run that follows a press of "start" or "continue"
ResumedRun ==
    /\ ss.last.branch \in {"start", "continue"}
    /\ ss.scanning
    /\ ss' # ss
    /\ ss'.period = ss.period
    /\ ss'.last.branch \in ScanBranches \cup {"idle", "stopped"}

\* C37: the script run that follows a press of "start" or "continue" works on the next
\* symbol of the list; a stop_requested flag left from an earlier stop does not halt it
C37_ResumeProceeds ==
    [][ ResumedRun => ss'.last.branch \in ScanBranches ]_vars

-----------------------------------------------------------------------------
(* Claims about the classification the two scan modes store, checked under
   SpecScorer *)

\* the collapse of the 7-way signal to BUY / SELL / HOLD
Collapse(signal) ==
    IF signal \in {"STRONG_BUY", "BUY", "CAUTIOUS_BUY"} THEN "BUY"
    ELSE IF signal \in {"STRONG_SELL", "SELL", "CAUTIOUS_SELL"} THEN "SELL"
    ELSE "HOLD"

\* C38: for a signal dict that generate_signals returned from scored data, the serial
\* scan and the concurrent worker store the same signal and the same signal_type, and
\* the signal_type is the collapse of the 7-way signal
C38_SameClassification ==
    (Scored /\ fn.out.outcome = "return") =>
        LET serial == SerialStoredSignal(fn.out, fn.buy_score, fn.sell_score)
            worker == WorkerStoredSignal(fn.out, fn.buy_score, fn.sell_score)
        IN  /\ serial.signal = worker.signal
            /\ serial.signal_type = worker.signal_type
            /\ serial.signal_type = Collapse(serial.signal)
            /\ worker.signal_type = Collapse(worker.signal)

-----------------------------------------------------------------------------
(* Claims about the tallies and the fetches of one get_data call, checked under
   SpecSource *)

\* the log entries of source p in which the fetch function raised RATE_LIMIT
RateLimitSignals(log, p) ==
    {i \in 1..Len(log) : /\ log[i].source = p
                         /\ p = "yfinance"
                         /\ log[i].queried
                         /\ log[i].resp = "rate_limit"}

\* C39: a call of get_data raises the rate_limit tally of each source by exactly the
\* number of rate-limit signals that source raised during the call
C39_RateLimitCountedOnce ==
    [][ GetDataStep =>
            \A p \in DOMAIN fn.m.rate_limit :
                fn'.m.rate_limit[p] =
                    fn.m.rate_limit[p] + Cardinality(RateLimitSignals(fn'.log, p)) ]_vars

\* the positions of the log at which the fetch function of source p was called
FetchCalls(log, p) == {i \in 1..Len(log) : log[i].source = p}

\* C40: within one call of get_data, with or without a preferred source, the fetch
\* function of each enabled source is called at most once
C40_OneFetchPerSource ==
    fn.op = "get_data" =>
        \A p \in DOMAIN fn.m.enabled : Cardinality(FetchCalls(fn.log, p)) <= 1

====
